---- MODULE Spec2Model ----
(***************************************************************************)
(* A model of nscoder: the keyed archiver (Archiver), the keyed unarchiver *)
(* (Unarchiver), the type registry (TypeRegistry) and the type-erased      *)
(* handle (AnyObject).                                                     *)
(*                                                                         *)
(* Table indices are 0-based, as in the source: slot i of a table `objs`   *)
(* is objs[i + 1].  An Option is a sequence of length 0 (None) or 1        *)
(* (Some).  An i64 is the pair <<hi, lo>> of its two 32-bit words, each    *)
(* read as a signed 32-bit number; an i32 is an integer in                 *)
(* -2^31 .. 2^31 - 1.                                                      *)
(***************************************************************************)
EXTENDS Integers, Sequences, FiniteSets, TLC

VARIABLES
    phase,                \* where the caller is: idle, encoding, encoded, sealed, decoding, done,
                          \* downcast, or ended by a panic or by stack exhaustion (overflow)
    unarchive_fns,        \* TypeRegistry.unarchive_fns: class name -> the type whose typed_unarchive is stored
    nregs,                \* number of register_type calls made so far
    lastreg,              \* Option: the latest register_type call, [ty, before], made since
                          \* to_bytes or from_bytes was last called
    input,                \* Option: the root value handed to to_bytes
    objects,              \* Archiver.objects
    active_object_index,  \* Archiver.active_object_index (Option)
    estack,               \* the call stack of encode_new_object / with_active_object
    root_object,          \* Option: the Uid returned by the top-level encode_new_object
    dict,                 \* Option: the ArchiveDict seal returned; from from_bytes on,
                          \* Unarchiver.dict, the one the data parsed to
    tampered,             \* whether the data was edited, other than its $archiver
    active_object,        \* Unarchiver.active_object (Option)
    dstack,               \* the call stack of the reconstruction functions
    result,               \* the outcome of from_bytes
    lastcall,             \* the most recent Decoder call and what it returned
    cast,                 \* Option: the caller's downcast of the root handle and its outcome
    type_registry,        \* Unarchiver.type_registry: the registry the Unarchiver borrows
    data                  \* Option: the archive between to_bytes and from_bytes, as a plist value

vars == <<phase, unarchive_fns, nregs, lastreg, input, objects, active_object_index, estack,
          root_object, dict, tampered, active_object, dstack, result, lastcall, cast,
          type_registry, data>>

(***************************************************************************)
(* Bounds of the model.                                                    *)
(***************************************************************************)
MaxDepth == 1
MaxRegs == 2

(***************************************************************************)
(* Options and fixed-width integers.                                       *)
(***************************************************************************)
None == <<>>
Some(x) == <<x>>

I32Min == -2147483647 - 1
I32Max == 2147483647

\* `value as i64` for an i32: sign extension.
AsI64(value) == <<IF value < 0 THEN -1 ELSE 0, value>>

\* `value as i32` for an i64: the low word.
AsI32(value) == value[2]

(***************************************************************************)
(* plist::Value, the node kinds the engine reads and writes.               *)
(***************************************************************************)
PString(s) == [t |-> "string", v |-> s]
PInteger(i) == [t |-> "integer", v |-> i]
\* An Integer above i64::MAX, which a plist can hold: the words <<hi, lo>> are
\* those of the value as an unsigned 64-bit number, its top bit set.
PBigInteger(i) == [t |-> "integer", v |-> i, unsigned |-> TRUE]
PUid(n) == [t |-> "uid", v |-> n]
PArray(s) == [t |-> "array", v |-> s]
PDictionary(d) == [t |-> "dictionary", v |-> d]

EmptyDictionary == <<>>

\* Dictionary::insert keeping the value of a key that is present
DictInsert_first_write_wins(d, key, value) ==
    [k \in (DOMAIN d) \cup {key} |-> IF k \in DOMAIN d THEN d[k] ELSE value]

\* Dictionary::insert leaving a "$class" entry that is present as it is
DictInsert_class_kept(d, key, value) ==
    [k \in (DOMAIN d) \cup {key} |->
        IF k = key /\ ~(key = "$class" /\ key \in DOMAIN d) THEN value ELSE d[k]]

\* Dictionary::insert: the key's value is replaced when the key is present.
DictInsert(d, key, value) ==
    [k \in (DOMAIN d) \cup {key} |-> IF k = key THEN value ELSE d[k]]

\* Dictionary::get
DictGet(d, key) == IF key \in DOMAIN d THEN Some(d[key]) ELSE None

\* Value::as_uid, as_string, as_signed_integer, as_dictionary on an Option<Value>
AsUid(o) == IF o # None /\ o[1].t = "uid" THEN Some(o[1].v) ELSE None
AsString(o) == IF o # None /\ o[1].t = "string" THEN Some(o[1].v) ELSE None
AsSignedInteger(o) ==
    IF o # None /\ o[1].t = "integer" /\ "unsigned" \notin DOMAIN o[1]
    THEN Some(o[1].v) ELSE None
AsDictionary(o) == IF o # None /\ o[1].t = "dictionary" THEN Some(o[1].v) ELSE None

\* objs[index] of a Vec, 0-based
Slot(objs, index) == objs[index + 1]

\* objs with slot `index` replaced
SetSlot(objs, index, value) == [objs EXCEPT ![index + 1] = value]

(***************************************************************************)
(* The archivable types the model runs the engine on.  RootObject is the   *)
(* crate's own; Person and MBFile are the types of the crate's tests; the  *)
(* others are further implementations of the Archive trait: Employee has a *)
(* three-name ancestor chain and an optional string, EmployeeAlt declares  *)
(* the class name of Employee with RootObject as its Super, Team has a     *)
(* required and an optional nested object followed by an integer, Odd      *)
(* writes one key four times, as an i32, a string, an object and an i64,   *)
(* and writes the key "$class", Shadow declares the                        *)
(* class name of its Super, RootObject.                                    *)
(***************************************************************************)
TypeIds ==
    {"RootObject", "Person", "MBFile", "Employee", "EmployeeAlt", "Team", "Odd", "Shadow"}

\* Archive::class_name
ClassName(T) ==
    CASE T = "RootObject" -> "NSObject"
      [] T = "Person" -> "RCDPerson"
      [] T = "MBFile" -> "MBFile"
      [] T = "Employee" -> "RCDEmployee"
      [] T = "EmployeeAlt" -> "RCDEmployee"
      [] T = "Team" -> "RCDTeam"
      [] T = "Odd" -> "RCDOdd"
      [] T = "Shadow" -> "NSObject"

\* Archive::Super
Super(T) ==
    CASE T = "Employee" -> "Person"
      [] OTHER -> "RootObject"

\* Archive::is_root_class
IsRootClass(T) == T = "RootObject"

Field(kind, key, req, ty) == [kind |-> kind, key |-> key, req |-> req, ty |-> ty]

\* The calls a type's encode makes, in order; its decode makes the matching
\* decode calls in the same order.  req: decode returns None (the `?`) when the
\* field comes back absent.  ty: the type an object field is downcast to.
Fields(T) ==
    CASE T = "RootObject" -> <<>>
      [] T = "Person" -> <<Field("i32", "Age", TRUE, ""),
                           Field("str", "FirstName", TRUE, ""),
                           Field("str", "LastName", TRUE, "")>>
      [] T = "MBFile" -> <<Field("i32", "GroupID", TRUE, ""),
                           Field("i64", "InodeNumber", TRUE, ""),
                           Field("str", "RelativePath", TRUE, "")>>
      [] T = "Employee" -> <<Field("i32", "Age", TRUE, ""),
                             Field("str", "Title", FALSE, "")>>
      [] T = "EmployeeAlt" -> <<Field("i32", "Age", TRUE, "")>>
      [] T = "Team" -> <<Field("obj", "Leader", TRUE, "Person"),
                         Field("obj", "Sub", FALSE, "Team"),
                         Field("i32", "Size", TRUE, "")>>
      [] T = "Odd" -> <<Field("i32", "K", TRUE, ""),
                        Field("str", "K", FALSE, ""),
                        Field("obj", "K", FALSE, "RootObject"),
                        Field("i64", "K", TRUE, ""),
                        Field("str", "$class", FALSE, "")>>
      [] T = "Shadow" -> <<>>

\* get_classes pushing the class name after the ancestors' names
RECURSIVE get_classes_root_first(_)
get_classes_root_first(T) ==
    LET classes == IF ~IsRootClass(T) THEN get_classes_root_first(Super(T)) ELSE <<>>
    IN  classes \o <<ClassName(T)>>

\* get_classes::<T>()
RECURSIVE get_classes(_)
get_classes(T) ==
    LET classes == IF ~IsRootClass(T) THEN get_classes(Super(T)) ELSE <<>>
    IN  <<ClassName(T)>> \o classes

(***************************************************************************)
(* Values of those types.  A value is [ty, vals]; vals[i] is the value of  *)
(* field i: an i32, an i64, or an Option of a string or of a value.        *)
(***************************************************************************)
Value(T, vals) == [ty |-> T, vals |-> vals]

PersonValues ==
    {Value("Person", <<26, Some("Cyan"), Some("Yang")>>),
     Value("Person", <<-1, Some(""), Some("Yang")>>)}

MBFileValues ==
    {Value("MBFile", <<501, <<0, 228000>>, Some("Library/PersistentStores")>>),
     Value("MBFile", <<I32Min, <<I32Max, -1>>, Some("a")>>)}

EmployeeValues ==
    {Value("Employee", <<40, None>>), Value("Employee", <<I32Max, Some("CTO")>>)}

EmployeeAltValues == {Value("EmployeeAlt", <<7>>)}

OddValues ==
    {Value("Odd", <<5, Some("s"), Some(Value("RootObject", <<>>)), <<I32Min, 0>>, Some("c")>>)}

ShadowValues == {Value("Shadow", <<>>)}

Leader == Value("Person", <<26, Some("Cyan"), Some("Yang")>>)

\* Teams nested at most d deep
RECURSIVE TeamValues(_)
TeamValues(d) ==
    {Value("Team", <<Some(p), None, 3>>) : p \in PersonValues}
        \cup (IF d = 0 THEN {}
              ELSE {Value("Team", <<Some(Leader), Some(t), 3>>) : t \in TeamValues(d - 1)})

Values ==
    {Value("RootObject", <<>>)} \cup PersonValues \cup MBFileValues \cup EmployeeValues
        \cup EmployeeAltValues \cup OddValues \cup ShadowValues \cup TeamValues(MaxDepth)

\* AnyObject::erasing
Erasing(object) ==
    [class_name |-> ClassName(object.ty), tag |-> object.ty, ptr |-> object]

(***************************************************************************)
(* TypeRegistry                                                            *)
(***************************************************************************)
\* register_type inserting over an occupied entry: the last registration wins
InsertAlways(fns, T) ==
    [n \in (DOMAIN fns) \cup {ClassName(T)} |-> IF n = ClassName(T) THEN T ELSE fns[n]]

\* register_type without the call for T::Super
register_type_no_ancestors(fns, T) ==
    IF ClassName(T) \in DOMAIN fns
    THEN fns
    ELSE [n \in (DOMAIN fns) \cup {ClassName(T)} |->
            IF n = ClassName(T) THEN T ELSE fns[n]]

\* The match on unarchive_fns.entry(class_name) of register_type
InsertIfVacant(fns, T) ==
    IF ClassName(T) \in DOMAIN fns
    THEN fns
    ELSE [n \in (DOMAIN fns) \cup {ClassName(T)} |->
            IF n = ClassName(T) THEN T ELSE fns[n]]

\* TypeRegistry::register_type::<T>
RECURSIVE register_type(_, _)
register_type(fns, T) ==
    LET up == IF ~IsRootClass(T) THEN register_type(fns, Super(T)) ELSE fns
    IN  InsertIfVacant(up, T)

\* TypeRegistry::get_unarchive_fn
get_unarchive_fn(fns, class_name) ==
    IF class_name \in DOMAIN fns THEN Some(fns[class_name]) ELSE None

\* The registry is a value of the caller's own: register_type can be called
\* before, between and after to_bytes and from_bytes.  It takes &mut self, so
\* it cannot run while an Unarchiver holds the registry's shared borrow, that
\* is during from_bytes (which stack exhaustion never leaves).
RegisterType ==
    /\ phase \notin {"decoding", "overflow"}
    /\ nregs < MaxRegs
    /\ \E T \in TypeIds :
        /\ unarchive_fns' = register_type(unarchive_fns, T)
        /\ lastreg' = Some([ty |-> T, before |-> unarchive_fns])
    /\ nregs' = nregs + 1
    /\ UNCHANGED <<cast, type_registry, data, phase, input, objects, active_object_index, estack, root_object,
                   dict, tampered, active_object, dstack, result, lastcall>>

(***************************************************************************)
(* Archiver                                                                *)
(***************************************************************************)
KEYED_ARCHIVER_CLASS_NAME == "NSKeyedArchiver"

\* Archiver::new() pushing no "$null"
Archiver_new_no_sentinel == [objects |-> <<>>, active_object_index |-> None]

\* Archiver::new()
Archiver_new == [objects |-> <<PString("$null")>>, active_object_index |-> None]

\* Archiver::ensure_active_object: the index of the active dictionary, or a panic
ArchiverEnsureActiveObject(objs, active) ==
    IF active = None THEN [panic |-> TRUE, index |-> 0]
    ELSE IF Len(objs) <= active[1] THEN [panic |-> TRUE, index |-> 0]
    ELSE IF Slot(objs, active[1]).t # "dictionary" THEN [panic |-> TRUE, index |-> 0]
    ELSE [panic |-> FALSE, index |-> active[1]]

\* dict.insert(key, value) on the dictionary ensure_active_object returns
InsertActive(objs, active, key, value) ==
    LET e == ArchiverEnsureActiveObject(objs, active)
    IN  IF e.panic THEN [panic |-> TRUE, objects |-> objs]
        ELSE [panic |-> FALSE,
              objects |-> SetSlot(objs, e.index,
                            PDictionary(DictInsert(Slot(objs, e.index).v, key, value)))]

\* Encoder::encode_i64
encode_i64(objs, active, value, key) == InsertActive(objs, active, key, PInteger(value))

\* Encoder::encode_i32
encode_i32(objs, active, value, key) == encode_i64(objs, active, AsI64(value), key)

\* encode_string taking the new string's index one too high
encode_string_index_off_by_one(objs, active, value, key) ==
    LET pushed == Append(objs, PString(value))
        index == Len(pushed)
    IN  InsertActive(pushed, active, key, PUid(index))

\* encode_string reusing the slot of an equal string already in the table
encode_string_deduplicated(objs, active, value, key) ==
    IF \E i \in 1..Len(objs) : objs[i] = PString(value)
    THEN InsertActive(objs, active, key,
                      PUid((CHOOSE i \in 1..Len(objs) : objs[i] = PString(value)) - 1))
    ELSE InsertActive(Append(objs, PString(value)), active, key, PUid(Len(objs)))

\* Encoder::encode_string
encode_string(objs, active, value, key) ==
    LET pushed == Append(objs, PString(value))
        index == Len(pushed) - 1
    IN  InsertActive(pushed, active, key, PUid(index))

\* The entry of encode_new_object, up to the call of encode_f: the empty
\* dictionary is pushed and with_active_object makes it the active object.
\* encode_new_object taking the table's length after the push as the index
Frame_index_after_push(slot, last, object, key) ==
    [slot |-> slot + 1, last |-> last, object |-> object, pc |-> 1, key |-> key]

Frame(slot, last, object, key) ==
    [slot |-> slot, last |-> last, object |-> object, pc |-> 1, key |-> key]

EnterNewObject(object, key) ==
    LET pushed == Append(objects, PDictionary(EmptyDictionary))
        new_object_index == Len(pushed) - 1
    IN  /\ objects' = pushed
        /\ estack' = Append(estack, Frame(new_object_index, active_object_index, object, key))
        /\ active_object_index' = Some(new_object_index)

\* The class info encode_new_object writes once encode_f has returned
ClassInfo(classes) ==
    PDictionary(DictInsert(DictInsert(EmptyDictionary, "$classes",
                                      PArray([i \in 1..Len(classes) |-> PString(classes[i])])),
                           "$classname", PString(classes[1])))

\* to_archive_dict: a new Archiver, and the entry of the top-level
\* encode_new_object on it
StartEncode ==
    /\ phase = "idle"
    /\ \E v \in Values :
        LET archiver == Archiver_new
            pushed == Append(archiver.objects, PDictionary(EmptyDictionary))
            new_object_index == Len(pushed) - 1
        IN  /\ input' = Some(v)
            /\ objects' = pushed
            /\ estack' = <<Frame(new_object_index, archiver.active_object_index, v, "")>>
            /\ active_object_index' = Some(new_object_index)
    /\ phase' = "encoding"
    /\ lastreg' = None
    /\ UNCHANGED <<cast, type_registry, data, unarchive_fns, nregs, root_object, dict, tampered,
                   active_object, dstack, result, lastcall>>

EFrame == estack[Len(estack)]
EField == Fields(EFrame.object.ty)[EFrame.pc]
EValue == EFrame.object.vals[EFrame.pc]
EAdvance == [estack EXCEPT ![Len(estack)].pc = @ + 1]

\* One call of the running object's encode on the Encoder.
EncodeField ==
    /\ phase = "encoding"
    /\ EFrame.pc <= Len(Fields(EFrame.object.ty))
    /\ IF EField.kind = "obj"
       THEN IF EValue = None
            THEN /\ estack' = EAdvance
                 /\ UNCHANGED <<objects, active_object_index, phase>>
            ELSE /\ EnterNewObject(EValue[1], EField.key)
                 /\ UNCHANGED phase
       ELSE IF EField.kind = "str" /\ EValue = None
       THEN /\ estack' = EAdvance
            /\ UNCHANGED <<objects, active_object_index, phase>>
       ELSE LET r == CASE EField.kind = "i32" ->
                            encode_i32(objects, active_object_index, EValue, EField.key)
                       [] EField.kind = "i64" ->
                            encode_i64(objects, active_object_index, EValue, EField.key)
                       [] OTHER ->
                            encode_string(objects, active_object_index, EValue[1], EField.key)
            IN  /\ objects' = r.objects
                /\ phase' = IF r.panic THEN "panic" ELSE phase
                /\ estack' = EAdvance
                /\ UNCHANGED active_object_index
    /\ UNCHANGED <<cast, type_registry, data, unarchive_fns, nregs, lastreg, input, root_object, dict, tampered, active_object,
                   dstack, result, lastcall>>

\* with_active_object leaving no object active when f has returned
RestoreActive_unset(last_index) == None

\* with_active_object's last line: the saved index becomes the active one again
RestoreActive(last_index) == last_index

\* encode_f has returned its classes: the class info is pushed and linked, the
\* previous active object is restored, and the caller goes on: encode_object
\* inserts the new object's Uid under its key, to_archive_dict keeps it.
FinishObject ==
    /\ phase = "encoding"
    /\ EFrame.pc > Len(Fields(EFrame.object.ty))
    /\ LET classes == get_classes(EFrame.object.ty)
           pushed == Append(objects, ClassInfo(classes))
           class_info_index == Len(pushed) - 1
           linked == InsertActive(pushed, active_object_index, "$class", PUid(class_info_index))
           restored == RestoreActive(EFrame.last)
           object == PUid(EFrame.slot)
       IN  /\ active_object_index' = restored
           /\ IF Len(estack) = 1
              THEN /\ objects' = linked.objects
                   /\ root_object' = Some(object)
                   /\ estack' = <<>>
                   /\ phase' = IF linked.panic THEN "panic" ELSE "encoded"
              ELSE LET r == InsertActive(linked.objects, restored, EFrame.key, object)
                       popped == SubSeq(estack, 1, Len(estack) - 1)
                   IN  /\ objects' = r.objects
                       /\ estack' = [popped EXCEPT ![Len(popped)].pc = @ + 1]
                       /\ phase' = IF linked.panic \/ r.panic THEN "panic" ELSE phase
                       /\ UNCHANGED root_object
    /\ UNCHANGED <<cast, type_registry, data, unarchive_fns, nregs, lastreg, input, dict, tampered, active_object, dstack,
                   result, lastcall>>

ARCHIVE_VERSION == 100000

\* seal taking the last slot pushed as the root
seal_root_last_slot(objs, root) ==
    [archiver_class_name |-> KEYED_ARCHIVER_CLASS_NAME,
     objects |-> objs,
     top_objects |-> [n \in {"root"} |-> Len(objs) - 1],
     version |-> ARCHIVE_VERSION]

\* Archiver::seal
seal(objs, root) ==
    [archiver_class_name |-> KEYED_ARCHIVER_CLASS_NAME,
     objects |-> objs,
     top_objects |-> [n \in {"root"} |-> root.v],
     version |-> ARCHIVE_VERSION]

\* Serialize for ArchiveDict, as to_writer_binary writes it: the plist
\* dictionary of the four renamed fields.  $version, a u32, is held as its
\* 32-bit word.
to_value(d) ==
    PDictionary([k \in {"$archiver", "$objects", "$top", "$version"} |->
        CASE k = "$archiver" -> PString(d.archiver_class_name)
          [] k = "$objects" -> PArray(d.objects)
          [] k = "$top" -> PDictionary([n \in DOMAIN d.top_objects |-> PUid(d.top_objects[n])])
          [] OTHER -> PInteger(<<0, d.version>>)])

\* to_bytes, after to_archive_dict
Seal ==
    /\ phase = "encoded"
    /\ dict' = Some(seal(objects, root_object[1]))
    /\ data' = Some(to_value(seal(objects, root_object[1])))
    /\ phase' = "sealed"
    /\ UNCHANGED <<cast, type_registry, unarchive_fns, nregs, lastreg, input, objects,
                   active_object_index, estack, root_object, tampered, active_object, dstack,
                   result, lastcall>>

Pending == [kind |-> "pending", err |-> "", arg |-> "", object |-> None]
NoCall == [op |-> "", key |-> "", slot |-> None, ret |-> None, err |-> "", via |-> ""]

(***************************************************************************)
(* The archive handed to from_bytes.  It need not be one that to_bytes     *)
(* wrote, so the data may be edited before it is decoded.                  *)
(***************************************************************************)
\* Deserialize for ArchiveDict, as plist::from_bytes reads it: None when the
\* data is not a dictionary, when one of the four fields is missing or of
\* another kind, when a value of $top is not a Uid, or when $version is not a
\* u32.  Keys that are no field of ArchiveDict are ignored.
from_value(value) ==
    IF value.t # "dictionary" THEN None
    ELSE LET archiver == AsString(DictGet(value.v, "$archiver"))
             objs == DictGet(value.v, "$objects")
             top == AsDictionary(DictGet(value.v, "$top"))
             version == AsSignedInteger(DictGet(value.v, "$version"))
         IN  IF \/ archiver = None
                \/ objs = None
                \/ objs[1].t # "array"
                \/ top = None
                \/ \E n \in DOMAIN top[1] : top[1][n].t # "uid"
                \/ version = None
                \/ version[1][1] # 0
             THEN None
             ELSE Some([archiver_class_name |-> archiver[1],
                        objects |-> objs[1].v,
                        top_objects |-> [n \in DOMAIN top[1] |-> top[1][n].v],
                        version |-> version[1][2]])

TheDict == dict[1]

\* The ArchiveDict the data parses to
TheData == from_value(data[1])[1]
Parses == from_value(data[1]) # None

\* The data with the value of one key of its dictionary replaced
WithKey(key, value) == Some(PDictionary(DictInsert(data[1].v, key, value)))

SlotPool ==
    {PString("x"), PInteger(<<0, 7>>), PDictionary(EmptyDictionary), PArray(<<>>)}

\* Uids worth writing into slot `index` of a table of length `len`: the null
\* slot, the root object, the slot itself, the last slot, and one past the end.
UidPool(index, len) == {PUid(0), PUid(1), PUid(index), PUid(len - 1), PUid(len)}

FieldPool(index, len) ==
    {PInteger(<<1, -1>>), PBigInteger(<<-1, -1>>), PString("Foo")} \cup UidPool(index, len)

\* Bytes that are no plist at all
NotAPlist == [t |-> "invalid", v |-> ""]

\* Data that is not the serialization of an ArchiveDict: no plist, no
\* dictionary, a field missing, a field of another kind, a $version outside
\* u32; and data that still is one: a key more, another $version.
DataPool(value) ==
    {NotAPlist, PString("junk")}
        \cup {PDictionary([k \in (DOMAIN value.v) \ {key} |-> value.v[k]]) :
                key \in {"$archiver", "$objects", "$top", "$version"}}
        \cup {PDictionary(DictInsert(value.v, e[1], e[2])) :
                e \in {<<"$archiver", PInteger(<<0, 1>>)>>,
                       <<"$objects", PDictionary(EmptyDictionary)>>,
                       <<"$top", PArray(<<>>)>>,
                       <<"$top", PDictionary([n \in {"root"} |-> PInteger(<<0, 1>>)])>>,
                       <<"$version", PString("100000")>>,
                       <<"$version", PInteger(<<-1, -1>>)>>,
                       <<"$version", PInteger(<<1, 0>>)>>,
                       <<"$version", PInteger(<<0, 1>>)>>,
                       <<"$extra", PString("x")>>}}

TamperData ==
    /\ phase = "sealed"
    /\ ~tampered
    /\ \E value \in DataPool(data[1]) : data' = Some(value)
    /\ tampered' = TRUE
    /\ UNCHANGED <<cast, type_registry, dict, phase, unarchive_fns, nregs, lastreg, input, objects,
                   active_object_index, estack, root_object, active_object, dstack, result,
                   lastcall>>

TamperArchiver ==
    /\ phase = "sealed"
    /\ Parses
    /\ TheData.archiver_class_name = KEYED_ARCHIVER_CLASS_NAME
    /\ data' = WithKey("$archiver", PString("NSArchiver"))
    /\ UNCHANGED <<cast, type_registry, dict, phase, tampered, unarchive_fns, nregs, lastreg, input,
                   objects, active_object_index, estack, root_object, active_object, dstack,
                   result, lastcall>>

TamperTop ==
    /\ phase = "sealed"
    /\ ~tampered
    /\ LET d == TheData
       IN  \E top \in {<<>>, [n \in {"other"} |-> 1]}
                        \cup {[n \in {"root"} |-> k] : k \in 0..Len(d.objects)}
                        \cup {[n \in {"root", "other"} |-> 1]} :
            /\ top # d.top_objects
            /\ data' = WithKey("$top", PDictionary([n \in DOMAIN top |-> PUid(top[n])]))
    /\ tampered' = TRUE
    /\ UNCHANGED <<cast, type_registry, dict, phase, unarchive_fns, nregs, lastreg, input, objects,
                   active_object_index, estack, root_object, active_object, dstack, result,
                   lastcall>>

TamperSlot ==
    /\ phase = "sealed"
    /\ ~tampered
    /\ LET d == TheData
       IN  \E index \in 0..(Len(d.objects) - 1), value \in SlotPool :
            data' = WithKey("$objects", PArray(SetSlot(d.objects, index, value)))
    /\ tampered' = TRUE
    /\ UNCHANGED <<cast, type_registry, dict, phase, unarchive_fns, nregs, lastreg, input, objects,
                   active_object_index, estack, root_object, active_object, dstack, result,
                   lastcall>>

TamperField ==
    /\ phase = "sealed"
    /\ ~tampered
    /\ LET d == TheData
       IN  \E index \in 0..(Len(d.objects) - 1) :
            /\ Slot(d.objects, index).t = "dictionary"
            /\ \E key \in DOMAIN Slot(d.objects, index).v,
                  value \in FieldPool(index, Len(d.objects)) :
                /\ value # Slot(d.objects, index).v[key]
                /\ data' = WithKey("$objects", PArray(
                            SetSlot(d.objects, index,
                                PDictionary(DictInsert(Slot(d.objects, index).v, key, value)))))
    /\ tampered' = TRUE
    /\ UNCHANGED <<cast, type_registry, dict, phase, unarchive_fns, nregs, lastreg, input, objects,
                   active_object_index, estack, root_object, active_object, dstack, result,
                   lastcall>>

RemoveField ==
    /\ phase = "sealed"
    /\ ~tampered
    /\ LET d == TheData
       IN  \E index \in 0..(Len(d.objects) - 1) :
            /\ Slot(d.objects, index).t = "dictionary"
            /\ \E key \in DOMAIN Slot(d.objects, index).v :
                data' = WithKey("$objects", PArray(
                            SetSlot(d.objects, index,
                                PDictionary([k \in (DOMAIN Slot(d.objects, index).v) \ {key} |->
                                                Slot(d.objects, index).v[k]]))))
    /\ tampered' = TRUE
    /\ UNCHANGED <<cast, type_registry, dict, phase, unarchive_fns, nregs, lastreg, input, objects,
                   active_object_index, estack, root_object, active_object, dstack, result,
                   lastcall>>

(***************************************************************************)
(* Unarchiver                                                              *)
(***************************************************************************)
Ok(object) == [kind |-> "ok", err |-> "", arg |-> "", object |-> Some(object)]
Err(err, arg) == [kind |-> "err", err |-> err, arg |-> arg, object |-> None]

\* Unarchiver::ensure_active_object: the active slot's value, or a panic and
\* its message ("" when there is none)
UnarchiverEnsureActiveObject(d, active) ==
    IF active = None
    THEN [panic |-> "expected an active object", value |-> None]
    ELSE IF Len(d.objects) <= active[1]
    THEN [panic |-> "internal state of unarchiver is inconsistent", value |-> None]
    ELSE [panic |-> "", value |-> Some(Slot(d.objects, active[1]))]

\* What a Decoder call gives when ensure_active_object panics: the panic
\* unwinds through the call, which returns nothing.
Unwind(message) == [panic |-> message]

\* decode_active_object up to the call of the reconstruction function: an
\* error, or the type whose typed_unarchive the registry holds for the class.
Dispatch(T) == [kind |-> "call", err |-> "", arg |-> "", ty |-> T]
DispatchErr(err, arg) == [kind |-> "err", err |-> err, arg |-> arg, ty |-> ""]
DispatchPanic(message) == [kind |-> "panic", err |-> message, arg |-> "", ty |-> ""]

\* decode_active_object reporting an unregistered class as a malformed object
decode_active_object_unknown_as_malformed(d, fns, active) ==
    LET object == AsDictionary(UnarchiverEnsureActiveObject(d, active).value)
    IN  IF object = None THEN DispatchErr("MalformedObject", "")
        ELSE LET class == AsUid(DictGet(object[1], "$class"))
        IN  IF class = None THEN DispatchErr("MalformedObject", "")
            ELSE IF Len(d.objects) <= class[1] THEN DispatchErr("MalformedObject", "")
            ELSE LET info == AsDictionary(Some(Slot(d.objects, class[1])))
                     class_name == IF info = None THEN None
                                   ELSE AsString(DictGet(info[1], "$classname"))
            IN  IF class_name = None THEN DispatchErr("MalformedObject", "")
                ELSE LET unarchive_fn == get_unarchive_fn(fns, class_name[1])
                IN  IF unarchive_fn = None THEN DispatchErr("MalformedObject", "")
                    ELSE Dispatch(unarchive_fn[1])

\* decode_active_object taking a class info without a string $classname as
\* the class named ""
decode_active_object_classname_defaulted(d, fns, active) ==
    LET object == AsDictionary(UnarchiverEnsureActiveObject(d, active).value)
    IN  IF object = None THEN DispatchErr("MalformedObject", "")
        ELSE LET class == AsUid(DictGet(object[1], "$class"))
        IN  IF class = None THEN DispatchErr("MalformedObject", "")
            ELSE IF Len(d.objects) <= class[1] THEN DispatchErr("MalformedObject", "")
            ELSE LET info == AsDictionary(Some(Slot(d.objects, class[1])))
                     class_name == IF info = None THEN Some("")
                                   ELSE IF AsString(DictGet(info[1], "$classname")) = None
                                   THEN Some("")
                                   ELSE AsString(DictGet(info[1], "$classname"))
            IN  LET unarchive_fn == get_unarchive_fn(fns, class_name[1])
                IN  IF unarchive_fn = None THEN DispatchErr("UnknownClass", class_name[1])
                    ELSE Dispatch(unarchive_fn[1])

\* decode_active_object trying the other names of $classes, in order, when
\* $classname is not registered
decode_active_object_classes_fallback(d, fns, active) ==
    LET object == AsDictionary(UnarchiverEnsureActiveObject(d, active).value)
    IN  IF object = None THEN DispatchErr("MalformedObject", "")
        ELSE LET class == AsUid(DictGet(object[1], "$class"))
        IN  IF class = None THEN DispatchErr("MalformedObject", "")
            ELSE IF Len(d.objects) <= class[1] THEN DispatchErr("MalformedObject", "")
            ELSE LET info == AsDictionary(Some(Slot(d.objects, class[1])))
                     class_name == IF info = None THEN None
                                   ELSE AsString(DictGet(info[1], "$classname"))
            IN  IF class_name = None THEN DispatchErr("MalformedObject", "")
                ELSE LET unarchive_fn == get_unarchive_fn(fns, class_name[1])
                         classes == IF DictGet(info[1], "$classes") # None
                                       /\ DictGet(info[1], "$classes")[1].t = "array"
                                    THEN DictGet(info[1], "$classes")[1].v
                                    ELSE <<>>
                         known == {i \in 1..Len(classes) :
                                     classes[i].t = "string" /\ classes[i].v \in DOMAIN fns}
                IN  IF unarchive_fn # None THEN Dispatch(unarchive_fn[1])
                    ELSE IF known # {}
                    THEN Dispatch(fns[classes[CHOOSE i \in known :
                                                \A j \in known : i <= j].v])
                    ELSE DispatchErr("UnknownClass", class_name[1])

\* Unarchiver::decode_active_object, up to the call of unarchive_fn
decode_active_object(d, fns, active) ==
    LET ensured == UnarchiverEnsureActiveObject(d, active)
        object == AsDictionary(ensured.value)
    IN  IF ensured.panic # "" THEN DispatchPanic(ensured.panic)
        ELSE IF object = None THEN DispatchErr("MalformedObject", "")
        ELSE LET class == AsUid(DictGet(object[1], "$class"))
        IN  IF class = None THEN DispatchErr("MalformedObject", "")
            ELSE IF Len(d.objects) <= class[1] THEN DispatchErr("MalformedObject", "")
            ELSE LET info == AsDictionary(Some(Slot(d.objects, class[1])))
                     class_name == IF info = None THEN None
                                   ELSE AsString(DictGet(info[1], "$classname"))
            IN  IF class_name = None THEN DispatchErr("MalformedObject", "")
                ELSE LET unarchive_fn == get_unarchive_fn(fns, class_name[1])
                IN  IF unarchive_fn = None THEN DispatchErr("UnknownClass", class_name[1])
                    ELSE Dispatch(unarchive_fn[1])

\* decode_i64 with unwrap_or(1)
decode_i64_default_one(d, active, key) ==
    LET object == AsDictionary(UnarchiverEnsureActiveObject(d, active).value)
    IN  IF object = None THEN <<0, 1>>
        ELSE LET value == AsSignedInteger(DictGet(object[1], key))
             IN  IF value = None THEN <<0, 1>> ELSE value[1]

\* Decoder::decode_i64
decode_i64(d, active, key) ==
    LET ensured == UnarchiverEnsureActiveObject(d, active)
        object == AsDictionary(ensured.value)
    IN  IF ensured.panic # "" THEN Unwind(ensured.panic)
        ELSE IF object = None THEN <<0, 0>>
        ELSE LET value == AsSignedInteger(DictGet(object[1], key))
             IN  IF value = None THEN <<0, 0>> ELSE value[1]

\* decode_i32 clamping to the i32 range
decode_i32_saturating(d, active, key) ==
    LET value == decode_i64(d, active, key)
    IN  IF value = AsI64(value[2]) THEN value[2]
        ELSE IF value[1] < 0 THEN I32Min ELSE I32Max

\* Decoder::decode_i32: the cast of what decode_i64 returns, when it returns
decode_i32(d, active, key) ==
    IF UnarchiverEnsureActiveObject(d, active).panic # ""
    THEN decode_i64(d, active, key)
    ELSE AsI32(decode_i64(d, active, key))

\* Decoder::decode_string
decode_string(d, active, key) ==
    LET ensured == UnarchiverEnsureActiveObject(d, active)
        object == AsDictionary(ensured.value)
    IN  IF ensured.panic # "" THEN Unwind(ensured.panic)
        ELSE IF object = None THEN None
        ELSE LET uid == AsUid(DictGet(object[1], key))
        IN  IF uid = None THEN None
            ELSE IF Len(d.objects) <= uid[1] THEN None
            ELSE AsString(Some(Slot(d.objects, uid[1])))

\* decode_object up to the nested decode: the referenced index, or None
ObjectTarget(d, active, key) ==
    LET ensured == UnarchiverEnsureActiveObject(d, active)
        object == AsDictionary(ensured.value)
    IN  IF ensured.panic # "" THEN Unwind(ensured.panic)
        ELSE IF object = None THEN None
        ELSE LET uid == AsUid(DictGet(object[1], key))
        IN  IF uid = None THEN None
            ELSE IF Len(d.objects) <= uid[1] THEN None
            ELSE uid

\* Result::ok on what the nested decode_active_object returned
ResultOk(res) == IF res.kind = "ok" THEN res.object ELSE None

\* The match reporting a reconstruction that returned None as NoRootObject
MatchUnarchived_wrong_error(ret) ==
    IF ret # None THEN Ok(ret[1]) ELSE Err("NoRootObject", "")

\* The match of decode_active_object on what the reconstruction function returned
MatchUnarchived(ret) == IF ret # None THEN Ok(ret[1]) ELSE Err("MalformedObject", "")

\* downcast comparing the class names instead of the types
Downcast_by_class_name(handle, T) ==
    IF handle.class_name = ClassName(T) THEN [ok |-> TRUE, value |-> handle.ptr]
    ELSE [ok |-> FALSE, value |-> handle.ptr]

\* AnyObject::downcast::<T>: Box<dyn Any>::downcast, Ok(Box<T>) when the boxed
\* value is a T and Err(the box itself) when it is not
Downcast(handle, T) ==
    IF handle.tag = T THEN [ok |-> TRUE, value |-> handle.ptr]
    ELSE [ok |-> FALSE, value |-> handle.ptr]

\* decode_object saving the new active object instead of the previous one
DFrameOf_saves_new(T, slot, last, nested) ==
    [ty |-> T, slot |-> slot, pc |-> 1, vals |-> <<>>, failed |-> FALSE,
     last |-> Some(slot), nested |-> nested]

DFrameOf(T, slot, last, nested) ==
    [ty |-> T, slot |-> slot, pc |-> 1, vals |-> <<>>, failed |-> FALSE,
     last |-> last, nested |-> nested]

\* What T::decode does with the value a decode_string or decode_object call
\* returned: a missing required field ends the reconstruction with None.
TakeField(frame, ret) ==
    LET field == Fields(frame.ty)[frame.pc]
        got == IF field.kind = "obj"
               THEN IF ret # None /\ Downcast(ret[1], field.ty).ok
                    THEN Some(Downcast(ret[1], field.ty).value)
                    ELSE None
               ELSE ret
    IN  IF field.req /\ got = None
        THEN [frame EXCEPT !.failed = TRUE]
        ELSE [frame EXCEPT !.vals = Append(@, got), !.pc = @ + 1]

TakeInt(frame, value) == [frame EXCEPT !.vals = Append(@, value), !.pc = @ + 1]

\* A finished Decoder call: the active object it was made on, what it returned
\* and, for decode_object, the error of the nested decode_active_object and
\* whether it came from the lookup ("lookup") or from the reconstruction
\* function returning None ("fn").
Call(op, key, slot, ret, err, via) ==
    [op |-> op, key |-> key, slot |-> slot, ret |-> ret, err |-> err, via |-> via]

\* Unarchiver::unarchive_root_object, up to the call of the root's
\* reconstruction function: the active object it leaves and what
\* decode_active_object found (an error, or the function to call).
RootOutcome(active, found) == [active |-> active, found |-> found]

\* unarchive_root_object looking for "root" before it validates the archiver
unarchive_root_object_root_first(d, fns) ==
    LET archiver_class_name == d.archiver_class_name
        root == DictGet(d.top_objects, "root")
    IN  IF root = None
        THEN RootOutcome(None, DispatchErr("NoRootObject", ""))
        ELSE IF archiver_class_name # KEYED_ARCHIVER_CLASS_NAME
        THEN RootOutcome(None, DispatchErr("UnsupportedArchiver", archiver_class_name))
        ELSE IF Len(d.objects) <= root[1]
        THEN RootOutcome(None, DispatchErr("MalformedObject", ""))
        ELSE RootOutcome(root, decode_active_object(d, fns, root))

\* unarchive_root_object taking any entry of $top when "root" is missing
unarchive_root_object_any_top(d, fns) ==
    LET archiver_class_name == d.archiver_class_name
        root == IF "root" \in DOMAIN d.top_objects THEN DictGet(d.top_objects, "root")
                ELSE IF DOMAIN d.top_objects # {}
                THEN Some(d.top_objects[CHOOSE n \in DOMAIN d.top_objects : TRUE])
                ELSE None
    IN  IF archiver_class_name # KEYED_ARCHIVER_CLASS_NAME
        THEN RootOutcome(None, DispatchErr("UnsupportedArchiver", archiver_class_name))
        ELSE IF root = None
        THEN RootOutcome(None, DispatchErr("NoRootObject", ""))
        ELSE IF Len(d.objects) <= root[1]
        THEN RootOutcome(None, DispatchErr("MalformedObject", ""))
        ELSE RootOutcome(root, decode_active_object(d, fns, root))

unarchive_root_object(d, fns) ==
    LET archiver_class_name == d.archiver_class_name
        root == DictGet(d.top_objects, "root")
    IN  IF archiver_class_name # KEYED_ARCHIVER_CLASS_NAME
        THEN RootOutcome(None, DispatchErr("UnsupportedArchiver", archiver_class_name))
        ELSE IF root = None
        THEN RootOutcome(None, DispatchErr("NoRootObject", ""))
        ELSE IF Len(d.objects) <= root[1]
        THEN RootOutcome(None, DispatchErr("MalformedObject", ""))
        ELSE RootOutcome(root, decode_active_object(d, fns, root))

\* from_bytes: the data is parsed, the Unarchiver is made of the ArchiveDict
\* and the registry, and unarchive_root_object runs up to the call of the
\* root's reconstruction function.
StartDecode ==
    /\ phase = "sealed"
    /\ LET parsed == from_value(data[1])
       IN  IF parsed = None
           THEN /\ result' = Err("MalformedData", "")
                /\ phase' = "done"
                /\ UNCHANGED <<dict, type_registry, active_object, dstack>>
           ELSE LET r == unarchive_root_object(parsed[1], unarchive_fns)
                IN  /\ dict' = parsed
                    /\ type_registry' = unarchive_fns
                    /\ active_object' = r.active
                    /\ CASE r.found.kind = "err" ->
                              /\ result' = Err(r.found.err, r.found.arg)
                              /\ phase' = "done"
                              /\ UNCHANGED dstack
                         [] r.found.kind = "panic" ->
                              /\ phase' = "panic"
                              /\ UNCHANGED <<dstack, result>>
                         [] OTHER ->
                              /\ dstack' = <<DFrameOf(r.found.ty, r.active[1], None, FALSE)>>
                              /\ phase' = "decoding"
                              /\ UNCHANGED result
    /\ lastcall' = NoCall
    /\ lastreg' = None
    /\ UNCHANGED <<cast, data, unarchive_fns, nregs, input, objects, active_object_index,
                   estack, root_object, tampered>>

DFrame == dstack[Len(dstack)]
DField == Fields(DFrame.ty)[DFrame.pc]
DReplaceTop(frame) == [dstack EXCEPT ![Len(dstack)] = frame]
OnStack(slot) == \E i \in 1..Len(dstack) : dstack[i].slot = slot

\* One call of the running reconstruction function on the Decoder.
DecodeField ==
    /\ phase = "decoding"
    /\ ~DFrame.failed
    /\ DFrame.pc <= Len(Fields(DFrame.ty))
    /\ IF UnarchiverEnsureActiveObject(TheDict, active_object).panic # ""
       THEN /\ phase' = "panic"
            /\ UNCHANGED <<active_object, dstack, lastcall>>
       ELSE
       CASE DField.kind = "i32" ->
              LET value == decode_i32(TheDict, active_object, DField.key)
              IN  /\ dstack' = DReplaceTop(TakeInt(DFrame, value))
                  /\ lastcall' = Call("decode_i32", DField.key, active_object, Some(value), "", "")
                  /\ UNCHANGED <<active_object, phase>>
         [] DField.kind = "i64" ->
              LET value == decode_i64(TheDict, active_object, DField.key)
              IN  /\ dstack' = DReplaceTop(TakeInt(DFrame, value))
                  /\ lastcall' = Call("decode_i64", DField.key, active_object, Some(value), "", "")
                  /\ UNCHANGED <<active_object, phase>>
         [] DField.kind = "str" ->
              LET value == decode_string(TheDict, active_object, DField.key)
              IN  /\ dstack' = DReplaceTop(TakeField(DFrame, value))
                  /\ lastcall' = Call("decode_string", DField.key, active_object, value, "", "")
                  /\ UNCHANGED <<active_object, phase>>
         [] OTHER ->
              LET object == ObjectTarget(TheDict, active_object, DField.key)
              IN  IF object = None
                  THEN /\ dstack' = DReplaceTop(TakeField(DFrame, None))
                       /\ lastcall' = Call("decode_object", DField.key, active_object, None, "", "")
                       /\ UNCHANGED <<active_object, phase>>
                  ELSE LET last_object == active_object
                           r == decode_active_object(TheDict, type_registry, object)
                       IN  IF r.kind = "panic"
                           THEN /\ phase' = "panic"
                                /\ UNCHANGED <<active_object, dstack, lastcall>>
                           ELSE IF r.kind = "err"
                           THEN /\ active_object' = last_object
                                /\ dstack' = DReplaceTop(
                                      TakeField(DFrame, ResultOk(Err(r.err, r.arg))))
                                /\ lastcall' = Call("decode_object", DField.key, last_object,
                                                    ResultOk(Err(r.err, r.arg)), r.err, "lookup")
                                /\ UNCHANGED phase
                           ELSE /\ active_object' = object
                                /\ lastcall' = Call("enter", DField.key, last_object, None, "", "")
                                /\ IF OnStack(object[1])
                                   THEN /\ phase' = "overflow"
                                        /\ UNCHANGED dstack
                                   ELSE /\ dstack' = Append(dstack,
                                              DFrameOf(r.ty, object[1], last_object, TRUE))
                                        /\ UNCHANGED phase
    /\ UNCHANGED <<cast, type_registry, data, unarchive_fns, nregs, lastreg, input, objects, active_object_index, estack,
                   root_object, dict, tampered, result>>

\* typed_unarchive::<T>: what T::decode returned, erased
typed_unarchive(frame) ==
    IF frame.failed THEN None ELSE Some(Erasing(Value(frame.ty, frame.vals)))

\* ReturnObject with decode_object handing a nested failure up as the result
\* of the whole decode
ReturnObject_propagates ==
    /\ phase = "decoding"
    /\ DFrame.failed \/ DFrame.pc > Len(Fields(DFrame.ty))
    /\ LET res == MatchUnarchived(typed_unarchive(DFrame))
       IN  IF ~DFrame.nested \/ res.kind = "err"
           THEN /\ result' = res
                /\ phase' = "done"
                /\ dstack' = <<>>
                /\ UNCHANGED <<active_object, lastcall>>
           ELSE LET decoded_object == ResultOk(res)
                    popped == SubSeq(dstack, 1, Len(dstack) - 1)
                    parent == popped[Len(popped)]
                IN  /\ active_object' = DFrame.last
                    /\ dstack' = [popped EXCEPT ![Len(popped)] = TakeField(parent, decoded_object)]
                    /\ lastcall' = Call("decode_object", Fields(parent.ty)[parent.pc].key,
                                        DFrame.last, decoded_object, res.err, "")
                    /\ UNCHANGED <<result, phase>>
    /\ UNCHANGED <<cast, type_registry, data, unarchive_fns, nregs, lastreg, input, objects, active_object_index, estack,
                   root_object, dict, tampered>>

\* The running reconstruction function returns.  The root's result is the
\* result of unarchive_root_object; a nested one is what decode_object
\* returns to the enclosing reconstruction function, after the active object
\* has been restored.
ReturnObject ==
    /\ phase = "decoding"
    /\ DFrame.failed \/ DFrame.pc > Len(Fields(DFrame.ty))
    /\ LET res == MatchUnarchived(typed_unarchive(DFrame))
       IN  IF ~DFrame.nested
           THEN /\ result' = res
                /\ phase' = "done"
                /\ dstack' = <<>>
                /\ UNCHANGED <<active_object, lastcall>>
           ELSE LET decoded_object == ResultOk(res)
                    popped == SubSeq(dstack, 1, Len(dstack) - 1)
                    parent == popped[Len(popped)]
                IN  /\ active_object' = DFrame.last
                    /\ dstack' = [popped EXCEPT ![Len(popped)] = TakeField(parent, decoded_object)]
                    /\ lastcall' = Call("decode_object", Fields(parent.ty)[parent.pc].key,
                                        DFrame.last, decoded_object, res.err,
                                        IF res.kind = "err" THEN "fn" ELSE "")
                    /\ UNCHANGED <<result, phase>>
    /\ UNCHANGED <<cast, type_registry, data, unarchive_fns, nregs, lastreg, input, objects, active_object_index, estack,
                   root_object, dict, tampered>>

\* The caller downcasts the handle from_archive_dict returned to a type of
\* its choice.
DowncastRoot ==
    /\ phase = "done"
    /\ result.kind = "ok"
    /\ \E T \in TypeIds :
        cast' = Some([handle |-> result.object[1], ty |-> T,
                      outcome |-> Downcast(result.object[1], T)])
    /\ phase' = "downcast"
    /\ UNCHANGED <<type_registry, data, unarchive_fns, nregs, lastreg, input, objects,
                   active_object_index, estack, root_object, dict, tampered, active_object,
                   dstack, result, lastcall>>

(***************************************************************************)
(* Properties                                                              *)
(***************************************************************************)
\* The types of the objects of a value's graph
RECURSIVE GraphTypes(_)
GraphTypes(v) ==
    {v.ty} \cup UNION {GraphTypes(v.vals[i][1]) :
                        i \in {j \in 1..Len(Fields(v.ty)) :
                                /\ Fields(v.ty)[j].kind = "obj"
                                /\ v.vals[j] # None}}

\* T writes each of its keys once and never the engine's key "$class"
PlainKeys(T) ==
    \A i \in 1..Len(Fields(T)) :
        /\ Fields(T)[i].key # "$class"
        /\ \A j \in 1..Len(Fields(T)) : i # j => Fields(T)[i].key # Fields(T)[j].key

\* The registry holds T's own reconstruction function under T's class name
RegisteredAsItself(T) ==
    /\ ClassName(T) \in DOMAIN type_registry
    /\ type_registry[ClassName(T)] = T

\* The decode of the envelope exactly as the encode sealed it has returned
RoundTripDone ==
    /\ phase = "done"
    /\ ~tampered
    /\ TheDict.archiver_class_name = KEYED_ARCHIVER_CLASS_NAME

\* The decode returned a handle that downcasts to the input's type and equals it
DecodedInput ==
    /\ result.kind = "ok"
    /\ Downcast(result.object[1], input[1].ty).ok
    /\ Downcast(result.object[1], input[1].ty).value = input[1]

\* C1 as stated: a value whose class is registered (under its own
\* reconstruction function) decodes from its own envelope to a handle that
\* downcasts to its type and equals it on every encoded field.
C1_RoundTripAsStated ==
    (RoundTripDone /\ RegisteredAsItself(input[1].ty)) => DecodedInput

\* Distinct keys alone do not save the statement: a team whose class is
\* registered while its leader's is not fails to decode.
C1_RoundTripPlainKeysOnly ==
    (/\ RoundTripDone
     /\ RegisteredAsItself(input[1].ty)
     /\ \A T \in GraphTypes(input[1]) : PlainKeys(T))
        => DecodedInput

\* C1, amended: the round trip holds when the class of every object of the
\* value's graph, nested ones included, is registered under its own
\* reconstruction function, and each of those types writes its fields under
\* pairwise distinct keys other than "$class".
C1_RoundTrip ==
    (/\ RoundTripDone
     /\ \A T \in GraphTypes(input[1]) : RegisteredAsItself(T) /\ PlainKeys(T))
        => DecodedInput

\* A team holding a nested team, all classes registered, has come back equal.
C1_Witness ==
    /\ RoundTripDone
    /\ \A T \in GraphTypes(input[1]) : RegisteredAsItself(T) /\ PlainKeys(T)
    /\ input[1].ty = "Team"
    /\ input[1].vals[2] # None
    /\ DecodedInput

\* The reference values occurring anywhere in a plist value
RECURSIVE UidsIn(_)
UidsIn(value) ==
    CASE value.t = "uid" -> {value.v}
      [] value.t = "dictionary" -> UNION {UidsIn(value.v[k]) : k \in DOMAIN value.v}
      [] value.t = "array" -> UNION {UidsIn(value.v[i]) : i \in 1..Len(value.v)}
      [] OTHER -> {}

TableInvariants(objs, root) ==
    /\ Slot(objs, 0) = PString("$null")
    /\ \A i \in 1..Len(objs) : \A u \in UidsIn(objs[i]) : u < Len(objs)
    /\ root < Len(objs)

\* C2: after an encode, in the archiver's table and in the sealed envelope,
\* slot 0 is the string "$null" and every reference in the table, and the
\* root reference of $top, is below the table's length.
C2_TableInvariants ==
    /\ phase = "encoded" => TableInvariants(objects, root_object[1].v)
    /\ (dict # None /\ ~tampered) =>
            TableInvariants(TheDict.objects, TheDict.top_objects["root"])

\* An envelope of a team with a nested team has been sealed.
C2_Witness ==
    /\ phase = "sealed"
    /\ ~tampered
    /\ input[1].ty = "Team"
    /\ input[1].vals[2] # None
    /\ Len(TheDict.objects) = 13
    /\ TableInvariants(TheDict.objects, TheDict.top_objects["root"])

(***************************************************************************)
(* The envelope as the claims describe it                                  *)
(***************************************************************************)
Table == TheDict.objects
InBounds(index) == index < Len(Table)
Record(index) == Slot(Table, index).v
IsRecord(index) == Slot(Table, index).t = "dictionary"
HasKind(index, key, kind) == key \in DOMAIN Record(index) /\ Record(index)[key].t = kind

\* Slot `index` cannot be dispatched: it is no dictionary, or its $class is
\* missing, no reference, out of bounds or no dictionary, or that dictionary
\* has no string $classname.
MalformedAt(index) ==
    \/ ~IsRecord(index)
    \/ ~HasKind(index, "$class", "uid")
    \/ ~InBounds(Record(index)["$class"].v)
    \/ ~IsRecord(Record(index)["$class"].v)
    \/ ~HasKind(Record(index)["$class"].v, "$classname", "string")

\* The $classname recorded for the well-formed object in slot `index`
RecordedClass(index) == Record(Record(index)["$class"].v)["$classname"].v

\* The nested decode of slot `index` fails before any reconstruction function runs
BrokenAt(index) ==
    MalformedAt(index) \/ RecordedClass(index) \notin DOMAIN type_registry

\* A reconstruction function is about to make its next Decoder call
Calling == phase = "decoding" /\ ~DFrame.failed /\ DFrame.pc <= Len(Fields(DFrame.ty))

\* A reconstruction function is about to return
Returning == phase = "decoding" /\ (DFrame.failed \/ DFrame.pc > Len(Fields(DFrame.ty)))

\* The decode goes on after the call: nothing was raised, nothing aborted
GoesOn == phase' = "decoding" /\ result' = Pending

\* C3: when the nested decode started by decode_object fails, because the
\* referenced slot cannot be dispatched or its class is unknown or the nested
\* reconstruction function returns None, decode_object returns None to the
\* enclosing reconstruction function, whose frame stays the running one, and
\* no error becomes the result; a structured error is the result only of the
\* outermost decode: no reconstruction function is then left on the stack.
C3_NestedFailuresSwallowed ==
    [][/\ (/\ Calling
           /\ DField.kind = "obj"
           /\ HasKind(active_object[1], DField.key, "uid")
           /\ InBounds(Record(active_object[1])[DField.key].v)
           /\ BrokenAt(Record(active_object[1])[DField.key].v))
          => /\ GoesOn
             /\ lastcall'.op = "decode_object" /\ lastcall'.ret = None
             /\ Len(dstack') = Len(dstack)
             /\ dstack'[Len(dstack')].slot = DFrame.slot
       /\ (Returning /\ DFrame.nested /\ DFrame.failed)
          => /\ GoesOn
             /\ lastcall'.op = "decode_object" /\ lastcall'.ret = None
             /\ Len(dstack') = Len(dstack) - 1
             /\ dstack'[Len(dstack')].slot = dstack[Len(dstack) - 1].slot
       /\ result'.kind = "err" => dstack' = <<>> /\ phase' = "done"
      ]_vars

\* decode_object has returned None for an unknown nested class and the
\* enclosing reconstruction function is going on with its next field.
C3_Witness ==
    /\ phase = "decoding"
    /\ lastcall.op = "decode_object"
    /\ lastcall.err = "UnknownClass"
    /\ lastcall.ret = None
    /\ ~DFrame.failed
    /\ result = Pending

\* from_bytes has returned what unarchive_root_object returned: the data
\* parsed as an ArchiveDict, which the Unarchiver was made of.
Unarchived == phase = "done" /\ Parses

\* C4: an envelope whose archiver identifier is not "NSKeyedArchiver" fails
\* with UnsupportedArchiver carrying that identifier, whatever $top and the
\* table hold, no slot having been made active and no reconstruction function
\* having been called.
C4_UnsupportedArchiver ==
    (Unarchived /\ TheDict.archiver_class_name # KEYED_ARCHIVER_CLASS_NAME) =>
        /\ result = Err("UnsupportedArchiver", TheDict.archiver_class_name)
        /\ active_object = None
        /\ dstack = <<>>
        /\ lastcall = NoCall

\* An envelope with archiver "NSArchiver" and no "root" in $top was refused
\* as UnsupportedArchiver("NSArchiver").
C4_Witness ==
    /\ Unarchived
    /\ TheDict.archiver_class_name = "NSArchiver"
    /\ "root" \notin DOMAIN TheDict.top_objects
    /\ result = Err("UnsupportedArchiver", "NSArchiver")

\* C5: with the right archiver identifier, an envelope whose $top has no
\* "root" entry fails with NoRootObject, also when $top has other entries and
\* the table holds well-formed objects.
C5_MissingRoot ==
    (/\ Unarchived
     /\ TheDict.archiver_class_name = KEYED_ARCHIVER_CLASS_NAME
     /\ "root" \notin DOMAIN TheDict.top_objects) =>
        /\ result = Err("NoRootObject", "")
        /\ active_object = None
        /\ dstack = <<>>

\* An envelope whose $top holds only "other", pointing at a well-formed
\* object of a registered class, was refused as NoRootObject.
C5_Witness ==
    /\ Unarchived
    /\ TheDict.archiver_class_name = KEYED_ARCHIVER_CLASS_NAME
    /\ DOMAIN TheDict.top_objects = {"other"}
    /\ ~BrokenAt(TheDict.top_objects["other"])
    /\ result = Err("NoRootObject", "")

\* The envelope has the right archiver and a "root" entry
HasRoot ==
    /\ TheDict.archiver_class_name = KEYED_ARCHIVER_CLASS_NAME
    /\ "root" \in DOMAIN TheDict.top_objects

Root == TheDict.top_objects["root"]

\* C6: when the root object is well formed and the $classname recorded for
\* it has no registered reconstruction function, the decode fails with
\* UnknownClass carrying exactly that name.
C6_UnknownClass ==
    (/\ Unarchived
     /\ HasRoot
     /\ InBounds(Root)
     /\ ~MalformedAt(Root)
     /\ RecordedClass(Root) \notin DOMAIN type_registry) =>
        result = Err("UnknownClass", RecordedClass(Root))

\* A well-formed envelope of class "Foo" was decoded against an empty
\* registry and failed with UnknownClass("Foo").
C6_Witness ==
    /\ Unarchived
    /\ HasRoot
    /\ InBounds(Root)
    /\ ~MalformedAt(Root)
    /\ RecordedClass(Root) = "Foo"
    /\ type_registry = <<>>
    /\ result = Err("UnknownClass", "Foo")

\* C7: with the right archiver and a "root" entry, a root index out of
\* bounds or a root slot that cannot be dispatched fails with MalformedObject,
\* whatever the registry holds, and no reconstruction function is called.
C7_MalformedRoot ==
    (/\ Unarchived
     /\ HasRoot
     /\ (~InBounds(Root) \/ MalformedAt(Root))) =>
        /\ result = Err("MalformedObject", "")
        /\ dstack = <<>>
        /\ lastcall = NoCall

\* A root whose class info has lost its $classname was refused as
\* MalformedObject although the registry is empty.
C7_Witness ==
    /\ Unarchived
    /\ HasRoot
    /\ InBounds(Root)
    /\ IsRecord(Root)
    /\ HasKind(Root, "$class", "uid")
    /\ InBounds(Record(Root)["$class"].v)
    /\ IsRecord(Record(Root)["$class"].v)
    /\ "$classname" \notin DOMAIN Record(Record(Root)["$class"].v)
    /\ type_registry = <<>>
    /\ result = Err("MalformedObject", "")

\* C8: when the root's reconstruction function returns None the decode fails
\* with MalformedObject; when a nested one returns None, decode_object
\* returns None to the enclosing function and the decode goes on; and the
\* root's reconstruction function returning a value makes that value the
\* result, whatever its nested decodes did.
C8_AbsentReconstruction ==
    [][/\ (Returning /\ ~DFrame.nested /\ DFrame.failed)
          => result' = Err("MalformedObject", "") /\ phase' = "done"
       /\ (Returning /\ DFrame.nested /\ DFrame.failed)
          => /\ GoesOn
             /\ lastcall' = Call("decode_object", lastcall'.key, DFrame.last, None,
                                 "MalformedObject", "fn")
             /\ active_object' = DFrame.last
       /\ (Returning /\ ~DFrame.nested /\ ~DFrame.failed)
          => /\ result' = Ok(Erasing(Value(DFrame.ty, DFrame.vals)))
             /\ phase' = "done"
      ]_vars

\* A nested reconstruction function has returned None and the root's, which
\* holds the field as optional, is going on.
C8_Witness ==
    /\ phase = "decoding"
    /\ lastcall.op = "decode_object"
    /\ lastcall.via = "fn"
    /\ lastcall.ret = None
    /\ Len(dstack) = 1
    /\ ~DFrame.failed

\* The decode of a team whose nested team failed to reconstruct has succeeded.
C8_WitnessDone ==
    /\ phase = "done"
    /\ result.kind = "ok"
    /\ input[1].ty = "Team" /\ input[1].vals[2] # None
    /\ result.object[1].tag = "Team" /\ result.object[1].ptr.vals[2] = None

\* C9: on the active object record, decode_i32 and decode_i64 return 0 for
\* a key that is absent or holds no integer; decode_string returns None for a
\* key that is absent, holds no reference, a reference out of bounds or one
\* to a slot that is no string; decode_object returns None for a key that is
\* absent, holds no reference or a reference out of bounds; and the decode
\* goes on, on the same active object.
C9_DefaultDecodeValues ==
    [][/\ (/\ Calling
           /\ DField.kind \in {"i32", "i64"}
           /\ ~HasKind(active_object[1], DField.key, "integer"))
          => /\ lastcall'.op = IF DField.kind = "i32" THEN "decode_i32" ELSE "decode_i64"
             /\ lastcall'.ret = IF DField.kind = "i32" THEN Some(0) ELSE Some(<<0, 0>>)
             /\ GoesOn /\ active_object' = active_object
       /\ (/\ Calling
           /\ DField.kind = "str"
           /\ \/ ~HasKind(active_object[1], DField.key, "uid")
              \/ ~InBounds(Record(active_object[1])[DField.key].v)
              \/ Slot(Table, Record(active_object[1])[DField.key].v).t # "string")
          => /\ lastcall'.op = "decode_string" /\ lastcall'.ret = None
             /\ GoesOn /\ active_object' = active_object
       /\ (/\ Calling
           /\ DField.kind = "obj"
           /\ \/ ~HasKind(active_object[1], DField.key, "uid")
              \/ ~InBounds(Record(active_object[1])[DField.key].v))
          => /\ lastcall'.op = "decode_object" /\ lastcall'.ret = None
             /\ GoesOn /\ active_object' = active_object
      ]_vars

\* decode_i32 has returned 0 for a key the active object record has lost.
C9_Witness ==
    /\ phase = "decoding"
    /\ lastcall.op = "decode_i32"
    /\ lastcall.key \notin DOMAIN Record(lastcall.slot[1])
    /\ lastcall.ret = Some(0)
    /\ result = Pending

\* The type of the latest register_type call and the registry before it
Registering == lastreg[1].ty
Before == lastreg[1].before

\* The proper ancestors of T
RECURSIVE Ancestors(_)
Ancestors(T) == IF IsRootClass(T) THEN {} ELSE {Super(T)} \cup Ancestors(Super(T))

\* C10 as stated: register_type for a type whose class name is present
\* leaves the whole registry unchanged.
C10_ReRegisterUnchangedAsStated ==
    (lastreg # None /\ ClassName(Registering) \in DOMAIN Before) =>
        unarchive_fns = Before

\* C10, amended: register_type for a type T whose class name is present
\* replaces no entry (every name present keeps its first-registered
\* function, T's name included); the only entries it can add are those of
\* ancestors of T whose class names were not yet present, each under its own
\* reconstruction function; and when the name was registered by T itself
\* the registry is unchanged.
C10_FirstRegistrationWins ==
    (lastreg # None /\ ClassName(Registering) \in DOMAIN Before) =>
        /\ \A n \in DOMAIN Before : n \in DOMAIN unarchive_fns /\ unarchive_fns[n] = Before[n]
        /\ \A n \in (DOMAIN unarchive_fns) \ (DOMAIN Before) :
                \E A \in Ancestors(Registering) : n = ClassName(A) /\ unarchive_fns[n] = A
        /\ Before[ClassName(Registering)] = Registering => unarchive_fns = Before

\* Employee was registered after EmployeeAlt, which holds its class name:
\* the entry stayed EmployeeAlt's and Employee's ancestor Person was added.
C10_Witness ==
    /\ lastreg # None
    /\ Registering = "Employee"
    /\ "RCDEmployee" \in DOMAIN Before
    /\ Before["RCDEmployee"] = "EmployeeAlt"
    /\ "RCDPerson" \notin DOMAIN Before
    /\ unarchive_fns["RCDEmployee"] = "EmployeeAlt"
    /\ unarchive_fns["RCDPerson"] = "Person"

\* The types of T's chain: T and its ancestors
Chain(T) == {T} \cup Ancestors(T)

\* No class name of T's chain was registered before the call
ChainVacant == \A A \in Chain(Registering) : ClassName(A) \notin DOMAIN Before

\* Every type of T's chain is registered under its own name with its own function
ChainRegistered ==
    \A A \in Chain(Registering) :
        ClassName(A) \in DOMAIN unarchive_fns /\ unarchive_fns[ClassName(A)] = A

\* C11 as stated: register_type for a type no name of whose chain is present
\* maps the class name of the type and of each of its ancestors, up to
\* "NSObject", to that type's own reconstruction function.
C11_RegistersChainAsStated ==
    (lastreg # None /\ ChainVacant) => ChainRegistered

\* The types of T's chain declare pairwise distinct class names
DistinctNames(T) ==
    \A A \in Chain(T), B \in Chain(T) : A # B => ClassName(A) # ClassName(B)

\* C11, amended: when moreover the class names along T's chain are pairwise
\* distinct, register_type maps each of them to its own type's reconstruction
\* function, and it adds nothing else and changes no entry that was present.
C11_RegistersChain ==
    (lastreg # None /\ ChainVacant /\ DistinctNames(Registering)) =>
        /\ ChainRegistered
        /\ DOMAIN unarchive_fns =
                (DOMAIN Before) \cup {ClassName(A) : A \in Chain(Registering)}
        /\ \A n \in DOMAIN Before : unarchive_fns[n] = Before[n]

\* Employee was registered on an empty registry: "RCDEmployee", "RCDPerson"
\* and "NSObject" are held by Employee, Person and RootObject.
C11_Witness ==
    /\ lastreg # None
    /\ Registering = "Employee"
    /\ Before = <<>>
    /\ unarchive_fns["RCDEmployee"] = "Employee"
    /\ unarchive_fns["RCDPerson"] = "Person"
    /\ unarchive_fns["NSObject"] = "RootObject"
    /\ DOMAIN unarchive_fns = {"RCDEmployee", "RCDPerson", "NSObject"}

\* The fields of v of kind `kind` that v's encode writes (an absent optional
\* string or object is not written)
Written(v, kind) ==
    {i \in 1..Len(Fields(v.ty)) : Fields(v.ty)[i].kind = kind /\ v.vals[i] # None}

RECURSIVE SumOver(_, _)
SumOver(f, S) ==
    IF S = {} THEN 0
    ELSE LET x == CHOOSE y \in S : TRUE IN f[x] + SumOver(f, S \ {x})

\* The number of objects an encode of v encodes: v and its nested objects
RECURSIVE NumObjects(_)
NumObjects(v) ==
    1 + SumOver([i \in Written(v, "obj") |-> NumObjects(v.vals[i][1])], Written(v, "obj"))

\* The number of encode_string calls an encode of v makes
RECURSIVE NumStrings(_)
NumStrings(v) ==
    Cardinality(Written(v, "str"))
        + SumOver([i \in Written(v, "obj") |-> NumStrings(v.vals[i][1])], Written(v, "obj"))

\* The slots of a table by what they hold: a Class Info Record is a
\* dictionary with $classes, an Object Record is any other dictionary.
ClassInfoSlots(objs) ==
    {i \in 0..(Len(objs) - 1) :
        Slot(objs, i).t = "dictionary" /\ "$classes" \in DOMAIN Slot(objs, i).v}
ObjectSlots(objs) ==
    {i \in 0..(Len(objs) - 1) :
        Slot(objs, i).t = "dictionary" /\ "$classes" \notin DOMAIN Slot(objs, i).v}
StringSlots(objs) == {i \in 0..(Len(objs) - 1) : Slot(objs, i).t = "string"}

TwoSlotsPerObject(objs, v) ==
    /\ Cardinality(ObjectSlots(objs)) = NumObjects(v)
    /\ Cardinality(ClassInfoSlots(objs)) = NumObjects(v)
    /\ \A i \in ObjectSlots(objs) :
            /\ "$class" \in DOMAIN Slot(objs, i).v
            /\ Slot(objs, i).v["$class"].t = "uid"
            /\ Slot(objs, i).v["$class"].v \in ClassInfoSlots(objs)
    /\ \A i \in ObjectSlots(objs), j \in ObjectSlots(objs) :
            i # j => Slot(objs, i).v["$class"].v # Slot(objs, j).v["$class"].v
    /\ Cardinality(StringSlots(objs)) = 1 + NumStrings(v)
    /\ Len(objs) = 1 + 2 * NumObjects(v) + NumStrings(v)

\* C12: after an encode, in the archiver's table and in the sealed
\* envelope, there is one Object Record and one Class Info Record per encoded
\* object, each Object Record's $class refers to a Class Info Record no other
\* Object Record refers to, there is one string slot per encode_string call
\* besides "$null", and the table's length is 1 + 2 * (encoded objects) +
\* (encode_string calls).
C12_TwoSlotsPerObject ==
    /\ phase = "encoded" => TwoSlotsPerObject(objects, input[1])
    /\ (dict # None /\ ~tampered) => TwoSlotsPerObject(TheDict.objects, input[1])

\* A team with a nested team was encoded: four objects, two of them of class
\* "RCDPerson" with their own class infos, and equal strings in two slots.
C12_Witness ==
    /\ phase = "encoded"
    /\ NumObjects(input[1]) = 4
    /\ NumStrings(input[1]) = 4
    /\ Len(objects) = 13
    /\ \E i \in ObjectSlots(objects), j \in ObjectSlots(objects) :
            /\ i # j
            /\ Slot(objects, Slot(objects, i).v["$class"].v)
                    = Slot(objects, Slot(objects, j).v["$class"].v)
    /\ \E i \in StringSlots(objects), j \in StringSlots(objects) :
            i # j /\ Slot(objects, i) = Slot(objects, j)

\* T's ancestor chain as the claim describes it: T's class name, then the
\* name of each successive ancestor, the root class last
RECURSIVE ChainNames(_)
ChainNames(T) ==
    IF IsRootClass(T) THEN <<ClassName(T)>>
    ELSE <<ClassName(T)>> \o ChainNames(Super(T))

\* The Class Info Record the Object Record in slot `index` refers to holds
\* exactly $classes, the chain of T as an array of strings, and $classname,
\* the first of them
ClassInfoOf(objs, index, T) ==
    LET record == Slot(objs, index)
    IN  /\ record.t = "dictionary"
        /\ "$class" \in DOMAIN record.v
        /\ record.v["$class"].t = "uid"
        /\ record.v["$class"].v < Len(objs)
        /\ LET info == Slot(objs, record.v["$class"].v)
           IN  /\ info.t = "dictionary"
               /\ DOMAIN info.v = {"$classes", "$classname"}
               /\ info.v["$classes"].t = "array"
               /\ Len(info.v["$classes"].v) = Len(ChainNames(T))
               /\ \A i \in 1..Len(ChainNames(T)) :
                        info.v["$classes"].v[i] = PString(ChainNames(T)[i])
               /\ info.v["$classname"] = PString(ChainNames(T)[1])
               /\ info.v["$classname"] = info.v["$classes"].v[1]

\* The object v encoded in slot `index`, and every object nested in it, has
\* the class info of its type.  A nested object is found through the key it
\* was encoded under or, when a later call of v's encode overwrote that key,
\* among the records pushed after v's.
RECURSIVE ClassesRecorded(_, _, _)
ClassesRecorded(objs, index, v) ==
    /\ ClassInfoOf(objs, index, v.ty)
    /\ \A i \in Written(v, "obj") :
            LET key == Fields(v.ty)[i].key
            IN  IF \A j \in 1..Len(Fields(v.ty)) : Fields(v.ty)[j].key = key => j <= i
                THEN /\ key \in DOMAIN Slot(objs, index).v
                     /\ Slot(objs, index).v[key].t = "uid"
                     /\ Slot(objs, index).v[key].v < Len(objs)
                     /\ ClassesRecorded(objs, Slot(objs, index).v[key].v, v.vals[i][1])
                ELSE \E k \in (index + 1)..(Len(objs) - 1) :
                        /\ Slot(objs, k).t = "dictionary"
                        /\ "$classes" \notin DOMAIN Slot(objs, k).v
                        /\ ClassesRecorded(objs, k, v.vals[i][1])

\* C13: after an encode, the Class Info Record of the root object and of
\* every nested object holds as $classes the ancestor chain of the object's
\* type, most-derived first and ending at the root class (for RootObject
\* itself the single name "NSObject"), and as $classname the first of them.
C13_ClassesChain ==
    /\ phase = "encoded" => ClassesRecorded(objects, root_object[1].v, input[1])
    /\ (dict # None /\ ~tampered) =>
            ClassesRecorded(TheDict.objects, TheDict.top_objects["root"], input[1])

\* An Employee was encoded: its class info lists "RCDEmployee", "RCDPerson",
\* "NSObject" and names "RCDEmployee".
C13_Witness ==
    /\ phase = "encoded"
    /\ input[1].ty = "Employee"
    /\ Slot(objects, Slot(objects, root_object[1].v).v["$class"].v).v["$classes"]
            = PArray(<<PString("RCDEmployee"), PString("RCDPerson"), PString("NSObject")>>)
    /\ Slot(objects, Slot(objects, root_object[1].v).v["$class"].v).v["$classname"]
            = PString("RCDEmployee")

\* A RootObject was encoded: its class info lists the single name "NSObject".
C13_WitnessRoot ==
    /\ phase = "encoded"
    /\ input[1].ty = "RootObject"
    /\ Slot(objects, Slot(objects, root_object[1].v).v["$class"].v).v["$classes"]
            = PArray(<<PString("NSObject")>>)

\* The encode calls v's encode makes: every integer field, and the string
\* and object fields that are present
Calls(v) ==
    {i \in 1..Len(Fields(v.ty)) :
        Fields(v.ty)[i].kind \in {"i32", "i64"} \/ v.vals[i] # None}

\* Call i is the last of v's encode calls on its key
IsLastWrite(v, i) ==
    \A j \in Calls(v) : Fields(v.ty)[j].key = Fields(v.ty)[i].key => j <= i

\* The Object Record in slot `index` holds, under each key v's encode wrote
\* (other than "$class"), the value of the last call on that key: the
\* integer, a reference to a slot holding the string, or a reference to the
\* record of the nested object; and it holds no other key but "$class".
RECURSIVE LastWrites(_, _, _)
LastWrites(objs, index, v) ==
    LET record == Slot(objs, index).v
    IN  /\ Slot(objs, index).t = "dictionary"
        /\ DOMAIN record = {Fields(v.ty)[i].key : i \in Calls(v)} \cup {"$class"}
        /\ \A i \in Calls(v) :
                LET field == Fields(v.ty)[i]
                    held == record[field.key]
                IN  (IsLastWrite(v, i) /\ field.key # "$class") =>
                        CASE field.kind = "i32" -> held = PInteger(AsI64(v.vals[i]))
                          [] field.kind = "i64" -> held = PInteger(v.vals[i])
                          [] field.kind = "str" ->
                                /\ held.t = "uid"
                                /\ held.v < Len(objs)
                                /\ Slot(objs, held.v) = PString(v.vals[i][1])
                          [] OTHER ->
                                /\ held.t = "uid"
                                /\ held.v < Len(objs)
                                /\ LastWrites(objs, held.v, v.vals[i][1])

\* C14: after an encode (which raised nothing), every Object Record holds
\* one entry per key its object's encode wrote, and the entry is the value of
\* the last call on that key, whatever the kinds of the calls.
C14_LastWriteWins ==
    /\ phase # "panic"
    /\ phase = "encoded" => LastWrites(objects, root_object[1].v, input[1])
    /\ (dict # None /\ ~tampered) =>
            LastWrites(TheDict.objects, TheDict.top_objects["root"], input[1])

\* An Odd was encoded: it wrote "K" as an i32, a string, an object and an
\* i64 in turn, and its record holds the i64 under "K".
C14_Witness ==
    /\ phase = "encoded"
    /\ input[1].ty = "Odd"
    /\ Cardinality({i \in Calls(input[1]) : Fields("Odd")[i].key = "K"}) = 4
    /\ Slot(objects, root_object[1].v).v["K"] = PInteger(<<I32Min, 0>>)
    /\ Len(objects) = 7

\* While an Odd was being encoded its record held a string, then an object
\* under "K", the key of the integer written first.
C14_WitnessOverwritten ==
    /\ phase = "encoding"
    /\ Len(estack) = 1
    /\ EFrame.object.ty = "Odd"
    /\ EFrame.pc = 4
    /\ Slot(objects, 1).v["K"].t = "uid"
    /\ Slot(objects, Slot(objects, 1).v["K"].v).t = "dictionary"

\* C15: the envelope an encode produces has the archiver identifier
\* "NSKeyedArchiver", version 100000, the archiver's table as its objects and
\* a $top whose only entry is "root", the index of the root object's record:
\* the slot the top-level encode_new_object returned, which holds the record
\* with the class info of the input's type; and the data to_bytes writes
\* parses back to that envelope.
C15_Envelope ==
    [][(phase = "encoded" /\ phase' # "encoded") =>
        /\ phase' = "sealed"
        /\ dict' # None
        /\ from_value(data'[1]) = dict'
        /\ dict'[1].archiver_class_name = "NSKeyedArchiver"
        /\ dict'[1].version = 100000
        /\ dict'[1].objects = objects
        /\ DOMAIN dict'[1].top_objects = {"root"}
        /\ dict'[1].top_objects["root"] = root_object[1].v
        /\ ClassInfoOf(objects, dict'[1].top_objects["root"], input[1].ty)
      ]_vars

\* The envelope of an MBFile has just been sealed: root is slot 1 of a
\* table of four slots.
C15_Witness ==
    /\ phase = "sealed"
    /\ ~tampered
    /\ input[1].ty = "MBFile"
    /\ TheDict.archiver_class_name = "NSKeyedArchiver"
    /\ TheDict.version = 100000
    /\ TheDict.objects = objects
    /\ Len(TheDict.objects) = 4
    /\ TheDict.top_objects = [n \in {"root"} |-> 1]

\* decode_object has called decode_active_object on a slot whose
\* reconstruction function is still running.  The envelope and the registry
\* do not change during a decode, so that function makes the same calls
\* again and reaches the same decode_object call again: the recursion never
\* returns, and the process ends when the stack is exhausted, with neither a
\* handle nor an Error.
Diverged == phase = "overflow"

\* C16 as stated: an encode that was started and a decode that was started
\* always return, the decode of an envelope whose references form a cycle
\* included: no call raises a panic and no decode recurses without end.
C16_TerminatesAsStated == phase # "panic" /\ ~Diverged

\* The slots whose reconstruction functions are running are pairwise
\* distinct while the decode has not diverged, so that the depth of the
\* recursion is bounded by the length of the table.
C16_StackOfDistinctSlots ==
    phase = "decoding" =>
        /\ Len(dstack) <= Len(Table)
        /\ \A i \in 1..Len(dstack), j \in 1..Len(dstack) :
                i # j => dstack[i].slot # dstack[j].slot

\* C17: a downcast of a handle to a type T succeeds exactly when T is the
\* type of the value the handle was built from, and then yields that value;
\* otherwise it fails and yields the boxed value as it was.
C17_Downcast ==
    cast # None =>
        /\ cast[1].outcome.ok <=> (cast[1].ty = cast[1].handle.ptr.ty)
        /\ cast[1].outcome.value = cast[1].handle.ptr
        /\ cast[1].handle = Erasing(cast[1].handle.ptr)

\* The handle of a decoded EmployeeAlt was downcast to Employee, the other
\* type of class name "RCDEmployee": the downcast failed and gave the
\* EmployeeAlt back.
C17_Witness ==
    /\ cast # None
    /\ cast[1].handle.ptr = Value("EmployeeAlt", <<7>>)
    /\ cast[1].ty = "Employee"
    /\ ~cast[1].outcome.ok
    /\ cast[1].outcome.value = Value("EmployeeAlt", <<7>>)

\* The handle of a decoded Person was downcast to Person and gave the Person.
C17_WitnessOk ==
    /\ cast # None
    /\ cast[1].ty = "Person"
    /\ cast[1].outcome.ok
    /\ cast[1].outcome.value = input[1]

\* The encode calls the frame's object has made so far
CallsMade(frame) == {i \in Calls(frame.object) : i < frame.pc}

\* The record of the frame's object holds exactly what the object's encode
\* has written so far: one entry per key written, holding the value of the
\* latest call on that key.
OwnRecord(frame) ==
    LET v == frame.object
        record == Slot(objects, frame.slot).v
    IN  /\ Slot(objects, frame.slot).t = "dictionary"
        /\ DOMAIN record = {Fields(v.ty)[i].key : i \in CallsMade(frame)}
        /\ \A i \in CallsMade(frame) :
                LET field == Fields(v.ty)[i]
                    held == record[field.key]
                IN  (\A j \in CallsMade(frame) : Fields(v.ty)[j].key = field.key => j <= i) =>
                        CASE field.kind = "i32" -> held = PInteger(AsI64(v.vals[i]))
                          [] field.kind = "i64" -> held = PInteger(v.vals[i])
                          [] field.kind = "str" ->
                                /\ held.t = "uid"
                                /\ Slot(objects, held.v) = PString(v.vals[i][1])
                          [] OTHER ->
                                /\ held.t = "uid"
                                /\ held.v > frame.slot
                                /\ ClassInfoOf(objects, held.v, v.vals[i][1].ty)

\* C18: while an encode runs, the active slot is the slot of the object
\* whose encode is running, the slot saved for each object is that of the
\* object enclosing it (none for the root), and the record of every object
\* being encoded holds exactly the fields that object's encode has written
\* so far, those written after a nested encode_object returned included;
\* when the top-level encode_new_object has returned no slot is active.
C18_EncodeCursor ==
    /\ phase # "panic"
    /\ phase = "encoding" =>
            /\ active_object_index = Some(EFrame.slot)
            /\ estack[1].last = None
            /\ \A i \in 2..Len(estack) : estack[i].last = Some(estack[i - 1].slot)
            /\ \A i \in 1..Len(estack) : OwnRecord(estack[i])
    /\ phase = "encoded" => active_object_index = None

\* A team holding a nested team has written its Size after both nested
\* encode_object calls returned: the root record, the active one, holds
\* Leader, Sub and Size.
C18_Witness ==
    /\ phase = "encoding"
    /\ Len(estack) = 1
    /\ EFrame.object.ty = "Team"
    /\ EFrame.object.vals[2] # None
    /\ EFrame.pc = 4
    /\ active_object_index = Some(1)
    /\ DOMAIN Slot(objects, 1).v = {"Leader", "Sub", "Size"}
    /\ Slot(objects, 1).v["Size"] = PInteger(<<0, 3>>)

\* The leader of a nested team is being encoded, three objects deep.
C18_WitnessDeep ==
    /\ phase = "encoding"
    /\ Len(estack) = 3
    /\ active_object_index = Some(estack[3].slot)
    /\ estack[3].last = Some(estack[2].slot)

DecoderCalls == {"decode_i32", "decode_i64", "decode_string", "decode_object"}

\* C19: while a decode runs, the active slot is the slot the running
\* reconstruction function was called for, also after a decode_object call
\* of that function has returned, whatever its outcome; the slot
\* decode_object saved for a nested function is the slot of the enclosing
\* one; and the active slot after a decode_i32, decode_i64, decode_string or
\* decode_object call is the slot the call was made on.
C19_DecodeCursor ==
    phase = "decoding" =>
        /\ active_object = Some(DFrame.slot)
        /\ dstack[1].last = None
        /\ \A i \in 2..Len(dstack) : dstack[i].last = Some(dstack[i - 1].slot)
        /\ lastcall.op \in DecoderCalls => lastcall.slot = active_object

\* A team's reconstruction function has read its Size, 3, from its own
\* record after decode_object returned its leader and returned None for
\* its nested team, whose decode failed.
C19_Witness ==
    /\ phase = "decoding"
    /\ Len(dstack) = 1
    /\ DFrame.ty = "Team"
    /\ DFrame.slot = 1
    /\ HasKind(1, "Sub", "uid")
    /\ InBounds(Record(1)["Sub"].v)
    /\ DFrame.pc = 4
    /\ DFrame.vals[1] # None
    /\ DFrame.vals[2] = None
    /\ lastcall = Call("decode_i32", "Size", Some(1), Some(3), "", "")
    /\ active_object = Some(1)

\* decode_object has returned a nested team to the root's function and the
\* root is the active object again.
C19_WitnessOk ==
    /\ phase = "decoding"
    /\ Len(dstack) = 1
    /\ lastcall.op = "decode_object"
    /\ lastcall.key = "Sub"
    /\ lastcall.ret # None
    /\ active_object = Some(1)

\* The names listed in the $classes of the object in slot `index`
ListedClasses(index) ==
    LET info == Record(Record(index)["$class"].v)
    IN  IF "$classes" \in DOMAIN info /\ info["$classes"].t = "array"
        THEN {info["$classes"].v[i].v : i \in 1..Len(info["$classes"].v)}
        ELSE {}

\* The slot the key of the latest decode_object call refers to
CallTarget == Record(lastcall.slot[1])[lastcall.key].v

\* C20: every reconstruction function that runs during a decode, and the
\* one that built the root handle, is the registry's entry for the
\* $classname recorded for its object; a well-formed root whose $classname
\* is not registered fails with UnknownClass of that name, and a well-formed
\* nested object whose $classname is not registered comes back absent from
\* decode_object, whatever other names its $classes lists.
C20_DispatchByClassName ==
    /\ phase = "decoding" =>
            \A i \in 1..Len(dstack) :
                /\ ~MalformedAt(dstack[i].slot)
                /\ RecordedClass(dstack[i].slot) \in DOMAIN type_registry
                /\ dstack[i].ty = type_registry[RecordedClass(dstack[i].slot)]
    /\ (phase = "done" /\ result.kind = "ok") =>
            /\ ~MalformedAt(Root)
            /\ RecordedClass(Root) \in DOMAIN type_registry
            /\ result.object[1].tag = type_registry[RecordedClass(Root)]
    /\ (/\ Unarchived /\ HasRoot /\ InBounds(Root) /\ ~MalformedAt(Root)
        /\ RecordedClass(Root) \notin DOMAIN type_registry) =>
            result = Err("UnknownClass", RecordedClass(Root))
    /\ (/\ phase = "decoding"
        /\ lastcall.op = "decode_object"
        /\ HasKind(lastcall.slot[1], lastcall.key, "uid")
        /\ InBounds(CallTarget)
        /\ ~MalformedAt(CallTarget)
        /\ RecordedClass(CallTarget) \notin DOMAIN type_registry) =>
            lastcall.ret = None /\ lastcall.err = "UnknownClass"

\* The envelope of an Employee was decoded with Person registered and
\* Employee not: "RCDPerson" and "NSObject" of its $classes are registered,
\* and the decode failed with UnknownClass("RCDEmployee").
C20_Witness ==
    /\ phase = "done"
    /\ ~tampered
    /\ HasRoot
    /\ input[1].ty = "Employee"
    /\ RecordedClass(Root) = "RCDEmployee"
    /\ ListedClasses(Root) = {"RCDEmployee", "RCDPerson", "NSObject"}
    /\ DOMAIN type_registry = {"RCDPerson", "NSObject"}
    /\ result = Err("UnknownClass", "RCDEmployee")

\* A team's leader, of the unregistered class "RCDPerson" with the
\* registered "NSObject" in its $classes, came back absent from decode_object.
C20_WitnessNested ==
    /\ phase = "decoding"
    /\ lastcall.op = "decode_object"
    /\ lastcall.key = "Leader"
    /\ HasKind(lastcall.slot[1], "Leader", "uid")
    /\ InBounds(CallTarget)
    /\ ~MalformedAt(CallTarget)
    /\ RecordedClass(CallTarget) = "RCDPerson"
    /\ "NSObject" \in ListedClasses(CallTarget)
    /\ "NSObject" \in DOMAIN type_registry
    /\ "RCDPerson" \notin DOMAIN type_registry
    /\ lastcall.ret = None

\* The envelope of an Employee was decoded by the function registered under
\* "RCDEmployee", EmployeeAlt's.
C20_WitnessOtherType ==
    /\ phase = "done"
    /\ ~tampered
    /\ input[1].ty = "Employee"
    /\ result.kind = "ok"
    /\ result.object[1].tag = "EmployeeAlt"

\* The number of slots an encode of v appends: two per object, one per string
Span(v) == 2 * NumObjects(v) + NumStrings(v)

\* The object v encoded at `index` owns the slots index .. index + Span(v) - 1:
\* its record is the first of them, its Class Info Record the last, every
\* reference its record holds lies strictly above `index` and not above its
\* class info, and the same holds of every nested object its record refers to.
RECURSIVE Reserved(_, _, _)
Reserved(objs, index, v) ==
    LET record == Slot(objs, index).v
    IN  /\ index + Span(v) - 1 < Len(objs)
        /\ Slot(objs, index).t = "dictionary"
        /\ "$classes" \notin DOMAIN record
        /\ record["$class"] = PUid(index + Span(v) - 1)
        /\ "$classes" \in DOMAIN Slot(objs, index + Span(v) - 1).v
        /\ \A k \in DOMAIN record :
                record[k].t = "uid" =>
                    index < record[k].v /\ record[k].v <= index + Span(v) - 1
        /\ \A i \in Written(v, "obj") :
                IsLastWrite(v, i) =>
                    Reserved(objs, record[Fields(v.ty)[i].key].v, v.vals[i][1])

\* C21: the index encode_new_object returns is the table's length at the
\* time of the call: an object that has just been entered sits in the last
\* slot as an empty record; the objects being built sit at increasing
\* indices, the root at index 1; and after the encode every object's
\* strings, nested objects and their class infos lie strictly above its own
\* index, its own Class Info Record being the last slot appended for it.
C21_ReservedIndex ==
    /\ phase = "encoding" =>
            /\ estack[1].slot = 1
            /\ \A i \in 2..Len(estack) : estack[i - 1].slot < estack[i].slot
            /\ EFrame.slot < Len(objects)
            /\ EFrame.pc = 1 =>
                    /\ EFrame.slot = Len(objects) - 1
                    /\ Slot(objects, EFrame.slot) = PDictionary(EmptyDictionary)
    /\ phase = "encoded" =>
            /\ root_object = Some(PUid(1))
            /\ Reserved(objects, 1, input[1])
            /\ Len(objects) = 1 + Span(input[1])
    /\ (dict # None /\ ~tampered) =>
            /\ TheDict.top_objects["root"] = 1
            /\ Reserved(TheDict.objects, 1, input[1])

\* A team with a nested team was encoded: the root at 1 with its class info
\* at 12, the nested team at 6 with its class info at 11, its leader at 7.
C21_Witness ==
    /\ phase = "encoded"
    /\ input[1].ty = "Team"
    /\ input[1].vals[2] # None
    /\ root_object = Some(PUid(1))
    /\ Slot(objects, 1).v["$class"] = PUid(12)
    /\ Slot(objects, 1).v["Sub"] = PUid(6)
    /\ Slot(objects, 6).v["$class"] = PUid(11)
    /\ Slot(objects, 6).v["Leader"] = PUid(7)

\* A nested object has just been entered: its empty record is the last slot.
C21_WitnessEntered ==
    /\ phase = "encoding"
    /\ Len(estack) = 3
    /\ EFrame.pc = 1
    /\ EFrame.slot = Len(objects) - 1

\* No reference of the table, and not the root reference, is index 0
NoReferenceToNull(objs, root) ==
    /\ root # 0
    /\ \A i \in 1..Len(objs) : 0 \notin UidsIn(objs[i])

\* The key of the latest Decoder call holds a reference to index 0
CallOnNull ==
    /\ lastcall.slot # None
    /\ InBounds(lastcall.slot[1])
    /\ IsRecord(lastcall.slot[1])
    /\ HasKind(lastcall.slot[1], lastcall.key, "uid")
    /\ Record(lastcall.slot[1])[lastcall.key].v = 0

\* The encode half of C22: no reference an encode writes is index 0.
C22_EncodeNeverRefersToNull ==
    /\ phase = "encoded" => NoReferenceToNull(objects, root_object[1].v)
    /\ (dict # None /\ ~tampered) =>
            NoReferenceToNull(TheDict.objects, TheDict.top_objects["root"])

\* The decode_object half of C22: decode_object returns None for a key that
\* refers to index 0 while that slot holds the "$null" string.
C22_ObjectAtNullAbsent ==
    (/\ phase \in {"decoding", "done", "downcast"}
     /\ lastcall.op = "decode_object"
     /\ CallOnNull
     /\ Slot(Table, 0) = PString("$null")) => lastcall.ret = None

\* C22 as stated: no reference written by an encode is index 0, and
\* decode_string and decode_object return None for a key whose reference is
\* index 0.
C22_NullNeverDataAsStated ==
    /\ C22_EncodeNeverRefersToNull
    /\ (/\ phase \in {"decoding", "done", "downcast"}
        /\ lastcall.op \in {"decode_string", "decode_object"}
        /\ CallOnNull) => lastcall.ret = None

\* decode_string has returned the placeholder itself, "$null", for a key
\* that refers to index 0.
C22_NullReturnedAsString ==
    /\ phase = "decoding"
    /\ lastcall.op = "decode_string"
    /\ CallOnNull
    /\ lastcall.ret = Some("$null")

\* The object's encode itself makes a call with the key "$class"
WritesClassKey(v) == \E i \in Calls(v) : Fields(v.ty)[i].key = "$class"

\* In the table, the $class entry of every Object Record is a reference to a
\* dictionary holding $classes and $classname, pushed after the record, that
\* no other Object Record refers to; and the root's is the class info of
\* the root's type.
ClassLinks(objs, root, v) ==
    /\ \A i \in ObjectSlots(objs) :
            LET record == Slot(objs, i).v
            IN  /\ "$class" \in DOMAIN record
                /\ record["$class"].t = "uid"
                /\ i < record["$class"].v
                /\ record["$class"].v < Len(objs)
                /\ Slot(objs, record["$class"].v).t = "dictionary"
                /\ {"$classes", "$classname"} \subseteq DOMAIN Slot(objs, record["$class"].v).v
                /\ \A j \in ObjectSlots(objs) :
                        i # j => Slot(objs, j).v["$class"] # record["$class"]
    /\ ClassInfoOf(objs, root, v.ty)

\* C23: after an encode the $class entry of every Object Record refers to
\* the object's own Class Info Record, also for an object whose encode wrote
\* a value of its own under "$class".
C23_ClassLinkWins ==
    /\ phase = "encoded" => ClassLinks(objects, root_object[1].v, input[1])
    /\ (dict # None /\ ~tampered) =>
            ClassLinks(TheDict.objects, TheDict.top_objects["root"], input[1])

\* An Odd, whose encode writes the string "c" under "$class", was encoded:
\* the string is in slot 5 and the record's $class refers to slot 6, the
\* class info of "RCDOdd".
C23_Witness ==
    /\ phase = "encoded"
    /\ input[1].ty = "Odd"
    /\ WritesClassKey(input[1])
    /\ Slot(objects, 5) = PString("c")
    /\ Slot(objects, 1).v["$class"] = PUid(6)
    /\ Slot(objects, 6).v["$classname"] = PString("RCDOdd")

\* While the Odd's encode was still running its record held, under
\* "$class", the reference to the string it wrote.
C23_WitnessBefore ==
    /\ phase = "encoding"
    /\ Len(estack) = 1
    /\ EFrame.object.ty = "Odd"
    /\ EFrame.pc = 6
    /\ Slot(objects, 1).v["$class"] = PUid(5)
    /\ Slot(objects, 5) = PString("c")

\* What the key of the latest Decoder call holds in the record it was made on
Stored == Record(lastcall.slot[1])[lastcall.key]

\* The latest call was decode_i32 or decode_i64 on a key holding an integer
IntegerRead(op) ==
    /\ phase \in {"decoding", "done", "downcast"}
    /\ lastcall.op = op
    /\ HasKind(lastcall.slot[1], lastcall.key, "integer")

\* The integer fields the root's reconstruction function has read so far
\* whose keys the encode wrote last as an integer of the same width
IntegersRead ==
    {i \in 1..Len(DFrame.vals) :
        /\ Fields(DFrame.ty)[i].kind \in {"i32", "i64"}
        /\ IsLastWrite(input[1], i)}

\* encode_i32 then decode_i32, and encode_i64 then decode_i64, on the same
\* key of the same object of an envelope as it was sealed, give the value back
IntegersRoundTrip ==
    (/\ phase = "decoding"
     /\ ~tampered
     /\ Len(dstack) = 1
     /\ DFrame.ty = input[1].ty) =>
        \A i \in IntegersRead : DFrame.vals[i] = input[1].vals[i]

\* C24 as stated: decode_i32 returns the low 32 bits, as a signed number, of
\* whatever 64-bit integer the key holds, decode_i64 returns the integer,
\* and the i32 and i64 round trips hold.
C24_IntegersAsStated ==
    /\ IntegerRead("decode_i32") => lastcall.ret = Some(Stored.v[2])
    /\ IntegerRead("decode_i64") => lastcall.ret = Some(Stored.v)
    /\ IntegersRoundTrip

\* The stored integer fits an i64 (as_signed_integer returns it)
Signed(value) == "unsigned" \notin DOMAIN value

\* C24, amended: for a stored integer that fits an i64, decode_i32 returns
\* its low 32 bits as a signed number (neither 0 nor a clamped value when it
\* is outside the i32 range) and decode_i64 returns it; for a stored integer
\* above i64::MAX both return 0; and the i32 and i64 round trips hold.
C24_Integers ==
    /\ (IntegerRead("decode_i32") /\ Signed(Stored)) => lastcall.ret = Some(Stored.v[2])
    /\ (IntegerRead("decode_i64") /\ Signed(Stored)) => lastcall.ret = Some(Stored.v)
    /\ (IntegerRead("decode_i32") /\ ~Signed(Stored)) => lastcall.ret = Some(0)
    /\ (IntegerRead("decode_i64") /\ ~Signed(Stored)) => lastcall.ret = Some(<<0, 0>>)
    /\ IntegersRoundTrip

\* decode_i32 has returned -1 for a key holding 2^33 - 1.
C24_Witness ==
    /\ IntegerRead("decode_i32")
    /\ Stored = PInteger(<<1, -1>>)
    /\ lastcall.ret = Some(-1)

\* decode_i32 has returned 0 for a key holding 2^64 - 1.
C24_WitnessUnsigned ==
    /\ IntegerRead("decode_i32")
    /\ Stored = PBigInteger(<<-1, -1>>)
    /\ lastcall.ret = Some(0)

\* An MBFile encoded with group i32::MIN and inode i64::MAX has had both
\* read back.
C24_WitnessRoundTrip ==
    /\ phase = "decoding"
    /\ ~tampered
    /\ DFrame.ty = "MBFile"
    /\ input[1].vals[1] = I32Min
    /\ input[1].vals[2] = <<I32Max, -1>>
    /\ Len(DFrame.vals) >= 2
    /\ DFrame.vals[1] = I32Min
    /\ DFrame.vals[2] = <<I32Max, -1>>

Init ==
    /\ phase = "idle"
    /\ unarchive_fns = <<>>
    /\ nregs = 0
    /\ lastreg = None
    /\ input = None
    /\ objects = Archiver_new.objects
    /\ active_object_index = Archiver_new.active_object_index
    /\ estack = <<>>
    /\ root_object = None
    /\ dict = None
    /\ tampered = FALSE
    /\ active_object = None
    /\ dstack = <<>>
    /\ result = Pending
    /\ lastcall = NoCall
    /\ cast = None
    /\ type_registry = <<>>
    /\ data = None

Next ==
    \/ RegisterType
    \/ StartEncode
    \/ EncodeField
    \/ FinishObject
    \/ Seal
    \/ TamperData
    \/ TamperArchiver
    \/ TamperTop
    \/ TamperSlot
    \/ TamperField
    \/ RemoveField
    \/ StartDecode
    \/ DecodeField
    \/ ReturnObject
    \/ DowncastRoot

Spec == Init /\ [][Next]_vars
====
